---- MODULE Spec2Model ----
(***************************************************************************)
(* A model of zap (github.com/JordanOcokoljic/zap): the call-site scanner  *)
(* (parse, GetResourcesInFile), the path resolver (CorrectlyPathResources) *)
(* and the directory collector (EmbedDirectories) of src/zap.go.           *)
(*                                                                         *)
(* Strings that the code slices or joins are sequences of one-character    *)
(* strings, the characters " and ` being written "dq" and "bq"; a path is  *)
(* the sequence of its "/"-separated segments.                             *)
(***************************************************************************)
EXTENDS Integers, Sequences, FiniteSets, TLC

VARIABLES
    \* ---- scanner (parse / GetResourcesInFile) ----
    file,        \* the source file: [imports, stmts]
    entry,       \* which function the caller invoked: "parse" | "GetResourcesInFile"
    pc,          \* position of the scan: "start" | "walk" | "done"
    imp,         \* parse's parameter imp (the import name)
    nodes,       \* the nodes ast.Inspect hands to the callback, in order
    idx,         \* index of the next node to visit
    state,       \* parse's local variable state
    resources,   \* parse's local variable resources
    errors,      \* parse's local variable errors (aggregateError.errors)
    ret,         \* the returned pair [resources, err]
    \* ---- path resolver (CorrectlyPathResources) ----
    pkgPath,     \* argument pkgPath
    base,        \* argument base
    fixed,       \* the returned slice
    rpc,         \* "call" | "returned"
    \* ---- collector (EmbedDirectories) ----
    disk,        \* the filesystem: per path, readability and contents
    roots,       \* argument resources of EmbedDirectories
    ri,          \* index of the next element of the root loop
    dirs,        \* local variable dirs (map path -> Directory)
    embErrors,   \* local variable errors of EmbedDirectories
    readDirs,    \* number of ioutil.ReadDir calls made, per path
    readFiles,   \* number of ioutil.ReadFile calls made, per path
    edits,       \* number of changes made to the disk by other programs
    epc,         \* "loop" | "returned" | "initialized"
    \* ---- generator (GenerateCode) ----
    devMode,     \* argument devMode of the latest call of GenerateCode
    code,        \* the pair [formatted, err] the latest call returned
    gens,        \* number of calls of GenerateCode made on the mapping
    \* ---- runtime library (package zapped) ----
    developmentMode,  \* package variable developmentMode
    zappedResources,  \* package variable resources (key -> *Directory)
    locals,      \* the Directory variables the generated init declared
    cur,         \* the Directory the calling program holds
    result,      \* the latest runtime call: [call, recv, name, value, err]
    calls,       \* number of runtime calls made
    trail,       \* history: the directory of Resource's caller and the path
                 \* arguments of the calls cur was obtained by, <<>> when cur
                 \* does not come from Resource in development mode
    \* ---- command (main) ----
    packages,    \* what GetPackagesInProject returned
    mi,          \* index of the next element of main's loop over packages
    mres,        \* main's local variable resources
    pret,        \* the pair [resources, err] the latest GetResourcesInPackage returned
    mpc,         \* position of main: "idle" | "packages" | "embed" | "generate"
                 \* | "write" | "exited"
    exitCode,    \* status the process exited with, -1 while it runs
    stdout,      \* what main printed
    embedFile    \* the contents of zapped/zap.embed.go, NoFile when absent

scanVars == <<file, entry, pc, imp, nodes, idx, state, resources, errors, ret>>
pathVars == <<pkgPath, base, fixed, rpc>>
embedVars == <<disk, roots, ri, dirs, embErrors, readDirs, readFiles, edits, epc>>
genVars == <<devMode, code, gens>>
rtVars == <<developmentMode, zappedResources, locals, cur, result, calls, trail>>
mainVars == <<packages, mi, mres, pret, mpc, exitCode, stdout, embedFile>>
vars == <<scanVars, pathVars, embedVars, genVars, rtVars, mainVars>>

----------------------------------------------------------------------------
(* Bounds of the model. *)

\* Largest number of statements in the body of the scanned file.
MaxStmts == 2

\* Largest number of "/"-separated segments of a relative resource path.
MaxSegs == 2

\* Largest number of resources handed to CorrectlyPathResources.
MaxBase == 2

\* Largest number of resources handed to EmbedDirectories.
MaxRoots == 2

\* Largest number of changes other programs make to the disk during a run.
MaxEdits == 1

\* Largest number of calls of GenerateCode on one mapping.
MaxGens == 2

\* Largest number of calls a program makes to the runtime library.
MaxCalls == 3

\* Largest number of packages GetPackagesInProject finds.
MaxPkgs == 2

----------------------------------------------------------------------------
(* Generic helpers. *)

RECURSIVE SeqsUpTo(_, _)
SeqsUpTo(S, n) ==
    IF n = 0 THEN {<<>>}
    ELSE LET shorter == SeqsUpTo(S, n - 1)
         IN  shorter \cup {Append(s, x) : s \in {t \in shorter : Len(t) = n - 1}, x \in S}

RECURSIVE Concat(_)
Concat(ss) == IF ss = <<>> THEN <<>> ELSE Head(ss) \o Concat(Tail(ss))

Range(s) == {s[i] : i \in DOMAIN s}

----------------------------------------------------------------------------
(* aggregateError *)

\* The nil error value.
NilError == [isNil |-> TRUE, errs |-> <<>>]

\* aggregateError.SafeReturn: the aggregate when it holds an error, else nil.
SafeReturn(errs) ==
    IF Len(errs) # 0 THEN [isNil |-> FALSE, errs |-> errs] ELSE NilError

----------------------------------------------------------------------------
(* Source files and the order in which ast.Inspect visits their nodes. *)

\* Import declarations a file may have: each a sequence of import specs
\* [path, name], name "" standing for the absent (nil) Name.
ImportFmt == [path |-> "fmt", name |-> ""]
ImportChoices ==
    { <<ImportFmt>>,
      <<[path |-> "zapped", name |-> ""]>>,
      <<ImportFmt, [path |-> "zap/zapped", name |-> "z"]>>,
      <<[path |-> "zapped", name |-> "."]>>,
      <<[path |-> "zapped", name |-> "_"]>> }

\* strings.HasSuffix(imp.Path.Value, "zapped\"") on the quoted path
HasZappedSuffix(pathValue) == pathValue \in {"zapped", "zap/zapped"}

\* getZappedImportName: the name of the first import whose path ends in
\* zapped, "zapped" when it has no name, "" when there is none.
RECURSIVE getZappedImportNameFrom(_)
getZappedImportNameFrom(imports) ==
    IF imports = <<>> THEN ""
    ELSE IF HasZappedSuffix(Head(imports).path)
         THEN (IF Head(imports).name # "" THEN Head(imports).name ELSE "zapped")
         ELSE getZappedImportNameFrom(Tail(imports))

getZappedImportName(f) == getZappedImportNameFrom(f.imports)

\* Argument expressions of a call.
StrLit(content) == [a |-> "str", quote |-> "dq", content |-> content]
RawLit(content) == [a |-> "str", quote |-> "bq", content |-> content]
IntLit == [a |-> "int", quote |-> "", content |-> <<"1">>]
IdentArg == [a |-> "ident", quote |-> "", content |-> <<"key">>]
CallArg == [a |-> "call", quote |-> "", content |-> <<"f">>]

KeyA == <<"A">>
KeyB == <<"B">>
PathS == <<"s", "/">>
PathQ == <<"q", "/">>

\* Statements: a call q.fn(args), a definition d, err := q.fn(args) and an
\* assignment lhs = rhs. qual "lib" is the embedding library under the
\* file's import name (no qualifier under a dot-import), any other qual is
\* written as is.
Call(qual, fn, args) == [form |-> "call", qual |-> qual, fn |-> fn, args |-> args]
Define(qual, fn, args) == [form |-> "define", qual |-> qual, fn |-> fn, args |-> args]
Assign(lhs, rhs) == [form |-> "assign", qual |-> lhs, fn |-> "", args |-> <<rhs>>]

StmtChoices ==
    { Call("lib", "Resource", <<StrLit(KeyA), StrLit(PathS)>>),
      Call("lib", "Resource", <<RawLit(KeyB), StrLit(PathQ)>>),
      Call("lib", "Resource", <<IdentArg, StrLit(PathS)>>),
      Call("lib", "Resource", <<IntLit, StrLit(PathS)>>),
      Call("lib", "Resource", <<CallArg, StrLit(PathS)>>),
      Call("lib", "Resource", <<IdentArg, IdentArg>>),
      Define("lib", "Resource", <<StrLit(KeyB), StrLit(PathS)>>),
      Call("lib", "Resource", <<StrLit(KeyA), IdentArg>>),
      Call("lib", "Resource", <<StrLit(KeyB), IntLit>>),
      Call("lib", "Resource", <<StrLit(KeyB), CallArg>>),
      Call("lib", "Resource", <<>>),
      Call("lib", "Resource", <<StrLit(KeyA)>>),
      Call("lib", "Resource", <<StrLit(KeyA), StrLit(PathS), StrLit(PathQ)>>),
      Call("lib", "Open", <<StrLit(KeyA)>>),
      Call("fmt", "Println", <<StrLit(KeyA)>>),
      Assign("key", StrLit(KeyA)),
      Assign("_", IdentArg) }

Files == [imports : ImportChoices, stmts : SeqsUpTo(StmtChoices, MaxStmts)]

\* Source offsets: statement i occupies Stride offsets from i * Stride on;
\* the qualifier stands at slot 0, the called name at slot 1 (slot 0 when
\* there is no qualifier), argument j at slot 1 + j.
Stride == 8
PosOf(i, slot) == i * Stride + slot

Other(p) == [kind |-> "Other", tok |-> "", name |-> "", value |-> <<>>, pos |-> p]
Ident(n, p) == [kind |-> "Ident", tok |-> "", name |-> n, value |-> <<>>, pos |-> p]
BasicLit(t, v, p) == [kind |-> "BasicLit", tok |-> t, name |-> "", value |-> v, pos |-> p]

\* The nodes of one argument expression, in visiting order.
ArgNodes(arg, p) ==
    CASE arg.a = "str" -> <<BasicLit("STRING", <<arg.quote>> \o arg.content \o <<arg.quote>>, p)>>
      [] arg.a = "int" -> <<BasicLit("INT", arg.content, p)>>
      [] arg.a = "ident" -> <<Ident(arg.content[1], p)>>
      [] arg.a = "call" -> <<Other(p), Ident(arg.content[1], p)>>

\* The qualifier a statement's call is written with under import name alias.
QualName(qual, alias) ==
    IF qual # "lib" THEN qual
    ELSE IF alias \in {"", "_"} THEN "zapped"
    ELSE IF alias = "." THEN ""
    ELSE alias

\* The nodes of a statement, in ast.Walk's order:
\*   assignment   AssignStmt, Lhs, Rhs
\*   call         ExprStmt, CallExpr, [SelectorExpr, X,] Sel, Args...
\*   definition   AssignStmt, Lhs d, Lhs err, CallExpr, [SelectorExpr, X,] Sel, Args...
\* The offsets of a definition's call are those of the call statement.
StmtNodes(s, i, alias) ==
    IF s.form = "assign"
    THEN <<Other(PosOf(i, 0)), Ident(s.qual, PosOf(i, 0))>> \o ArgNodes(s.args[1], PosOf(i, 2))
    ELSE LET q == QualName(s.qual, alias)
             fun == IF q = ""
                    THEN <<Ident(s.fn, PosOf(i, 0))>>
                    ELSE <<Other(PosOf(i, 0)), Ident(q, PosOf(i, 0)), Ident(s.fn, PosOf(i, 1))>>
             stmt == IF s.form = "define"
                     THEN <<Other(PosOf(i, 0)), Ident("d", PosOf(i, 0)), Ident("err", PosOf(i, 0))>>
                     ELSE <<Other(PosOf(i, 0))>>
         IN  stmt \o <<Other(PosOf(i, 0))>> \o fun
             \o Concat([j \in DOMAIN s.args |-> ArgNodes(s.args[j], PosOf(i, 1 + j))])

\* ImportSpec, [Name,] Path
ImportNodes(spec) ==
    <<Other(2)>> \o (IF spec.name # "" THEN <<Ident(spec.name, 2)>> ELSE <<>>)
    \o <<BasicLit("STRING", <<"dq", spec.path, "dq">>, 3)>>

\* File, Name, GenDecl, ImportSpec..., FuncDecl, Name, FuncType, FieldList,
\* BlockStmt, statements. The callback's calls with a nil node, made after
\* the children of each node, return at once and are left out.
FlattenAs(f, alias) ==
    <<Other(0), Ident("test", 1), Other(2)>>
    \o Concat([k \in DOMAIN f.imports |-> ImportNodes(f.imports[k])])
    \o <<Other(4), Ident("main", 5), Other(4), Other(6), Other(7)>>
    \o Concat([i \in DOMAIN f.stmts |-> StmtNodes(f.stmts[i], i, alias)])

Flatten(f) == FlattenAs(f, getZappedImportName(f))

----------------------------------------------------------------------------
(* parse *)

NilState == 0
ExpectingResourceCall == 1
ExpectingKey == 2
ExpectingPath == 3

errorUnknownCall == 0
errorBadType == 1

\* generateParseError: the position and the message of the diagnostic.
generateParseError(p, err) ==
    [pos |-> p,
     msg |-> IF err = errorUnknownCall
             THEN "expected Resource() but was something else"
             ELSE "calls to Resource() require string literals"]

\* handleError: the scan with one more diagnostic.
handleError(st, node, errorType) ==
    [st EXCEPT !.errors = Append(@, generateParseError(node.pos, errorType))]

\* node.Value[1 : len(node.Value)-1]
StripQuotes(v) == SubSeq(v, 2, Len(v) - 1)

\* resolveIdent with the import name spelled out as "zapped".
resolveIdent_FixedName(st, node, alias) ==
    CASE st.state = NilState ->
           IF node.name = "zapped" THEN [st EXCEPT !.state = ExpectingResourceCall] ELSE st
      [] st.state = ExpectingResourceCall ->
           IF node.name # "Resource"
           THEN [handleError(st, node, errorUnknownCall) EXCEPT !.state = NilState]
           ELSE [st EXCEPT !.state = ExpectingKey]
      [] st.state \in {ExpectingKey, ExpectingPath} ->
           [handleError(st, node, errorBadType) EXCEPT !.state = NilState]

\* resolveIdent that resets without a diagnostic on an identifier argument.
resolveIdent_SilentReset(st, node, alias) ==
    CASE st.state = NilState ->
           IF node.name = alias THEN [st EXCEPT !.state = ExpectingResourceCall] ELSE st
      [] st.state = ExpectingResourceCall ->
           IF node.name # "Resource"
           THEN [handleError(st, node, errorUnknownCall) EXCEPT !.state = NilState]
           ELSE [st EXCEPT !.state = ExpectingKey]
      [] st.state \in {ExpectingKey, ExpectingPath} ->
           [st EXCEPT !.state = NilState]

\* resolveIdent that, under a dot-import, takes the name Resource as a call.
resolveIdent_DotArms(st, node, alias) ==
    CASE st.state = NilState ->
           IF node.name = alias THEN [st EXCEPT !.state = ExpectingResourceCall]
           ELSE IF alias = "." /\ node.name = "Resource" THEN [st EXCEPT !.state = ExpectingKey]
           ELSE st
      [] st.state = ExpectingResourceCall ->
           IF node.name # "Resource"
           THEN [handleError(st, node, errorUnknownCall) EXCEPT !.state = NilState]
           ELSE [st EXCEPT !.state = ExpectingKey]
      [] st.state \in {ExpectingKey, ExpectingPath} ->
           [handleError(st, node, errorBadType) EXCEPT !.state = NilState]

\* resolveIdent that reports a name other than Resource as a bad argument
\* and stays armed.
resolveIdent_StayArmed(st, node, alias) ==
    CASE st.state = NilState ->
           IF node.name = alias THEN [st EXCEPT !.state = ExpectingResourceCall] ELSE st
      [] st.state = ExpectingResourceCall ->
           IF node.name # "Resource"
           THEN handleError(st, node, errorBadType)
           ELSE [st EXCEPT !.state = ExpectingKey]
      [] st.state \in {ExpectingKey, ExpectingPath} ->
           [handleError(st, node, errorBadType) EXCEPT !.state = NilState]

\* resolveIdent: st is [state, resources, errors]; the result is st after the
\* call with state already assigned from the return value.
resolveIdent(st, node, alias) ==
    CASE st.state = NilState ->
           IF node.name = alias THEN [st EXCEPT !.state = ExpectingResourceCall] ELSE st
      [] st.state = ExpectingResourceCall ->
           IF node.name # "Resource"
           THEN [handleError(st, node, errorUnknownCall) EXCEPT !.state = NilState]
           ELSE [st EXCEPT !.state = ExpectingKey]
      [] st.state \in {ExpectingKey, ExpectingPath} ->
           [handleError(st, node, errorBadType) EXCEPT !.state = NilState]

\* resolveBasicLit that completes the first resource instead of the last.
resolveBasicLit_PathToFirst(st, node) ==
    CASE st.state = ExpectingKey ->
           IF node.tok # "STRING"
           THEN [handleError(st, node, errorBadType) EXCEPT !.state = NilState]
           ELSE [st EXCEPT !.resources = Append(@, [Key |-> StripQuotes(node.value), Path |-> <<>>]),
                           !.state = ExpectingPath]
      [] st.state = ExpectingPath ->
           IF node.tok # "STRING"
           THEN [handleError(st, node, errorBadType) EXCEPT !.state = NilState]
           ELSE [st EXCEPT !.resources[1].Path = StripQuotes(node.value),
                           !.state = NilState]
      [] OTHER -> st

\* resolveBasicLit that skips a literal that is not a string.
resolveBasicLit_SkipsNonString(st, node) ==
    CASE st.state = ExpectingKey ->
           IF node.tok # "STRING"
           THEN st
           ELSE [st EXCEPT !.resources = Append(@, [Key |-> StripQuotes(node.value), Path |-> <<>>]),
                           !.state = ExpectingPath]
      [] st.state = ExpectingPath ->
           IF node.tok # "STRING"
           THEN st
           ELSE [st EXCEPT !.resources[Len(st.resources)].Path = StripQuotes(node.value),
                           !.state = NilState]
      [] OTHER -> st

\* resolveBasicLit that stores the key of a call as its path as well.
resolveBasicLit_PathPrefilled(st, node) ==
    CASE st.state = ExpectingKey ->
           IF node.tok # "STRING"
           THEN [handleError(st, node, errorBadType) EXCEPT !.state = NilState]
           ELSE [st EXCEPT !.resources = Append(@, [Key |-> StripQuotes(node.value),
                                                    Path |-> StripQuotes(node.value)]),
                           !.state = ExpectingPath]
      [] st.state = ExpectingPath ->
           IF node.tok # "STRING"
           THEN [handleError(st, node, errorBadType) EXCEPT !.state = NilState]
           ELSE [st EXCEPT !.resources[Len(st.resources)].Path = StripQuotes(node.value),
                           !.state = NilState]
      [] OTHER -> st

\* resolveBasicLit: st after the call, with state assigned from the return value.
resolveBasicLit(st, node) ==
    CASE st.state = ExpectingKey ->
           IF node.tok # "STRING"
           THEN [handleError(st, node, errorBadType) EXCEPT !.state = NilState]
           ELSE [st EXCEPT !.resources = Append(@, [Key |-> StripQuotes(node.value), Path |-> <<>>]),
                           !.state = ExpectingPath]
      [] st.state = ExpectingPath ->
           IF node.tok # "STRING"
           THEN [handleError(st, node, errorBadType) EXCEPT !.state = NilState]
           ELSE [st EXCEPT !.resources[Len(st.resources)].Path = StripQuotes(node.value),
                           !.state = NilState]
      [] OTHER -> st

\* The default case reporting only while a key is expected.
resolveOther_KeyOnly(st, node) ==
    IF st.state = ExpectingKey
    THEN [handleError(st, node, errorBadType) EXCEPT !.state = NilState]
    ELSE [st EXCEPT !.state = NilState]

\* The default case of the callback's type switch.
resolveOther(st, node) ==
    IF st.state = ExpectingKey \/ st.state = ExpectingPath
    THEN [handleError(st, node, errorBadType) EXCEPT !.state = NilState]
    ELSE [st EXCEPT !.state = NilState]

\* One call of the callback given to ast.Inspect.
VisitNode(st, node, alias) ==
    CASE node.kind = "Ident" -> resolveIdent(st, node, alias)
      [] node.kind = "BasicLit" -> resolveBasicLit(st, node)
      [] OTHER -> resolveOther(st, node)

ScanStart == [state |-> NilState, resources |-> <<>>, errors |-> <<>>]

\* parse as a whole: the fold of the callback over the nodes.
RECURSIVE WalkFrom(_, _, _)
WalkFrom(st, ns, alias) ==
    IF ns = <<>> THEN st ELSE WalkFrom(VisitNode(st, Head(ns), alias), Tail(ns), alias)

parse(ns, alias) ==
    LET st == WalkFrom(ScanStart, ns, alias)
    IN  [resources |-> st.resources, err |-> SafeReturn(st.errors)]

\* The test of GetResourcesInFile without the cases "_" and ".".
NotUsable_EmptyOnly(importName) == importName = ""

\* The test of GetResourcesInFile that skips parse.
NotUsable(importName) == importName = "" \/ importName = "_" \/ importName = "."

----------------------------------------------------------------------------
(* Scanner: actions. *)

NoRet == [resources |-> <<>>, err |-> NilError]

ScanInit ==
    /\ file \in Files
    /\ entry \in {"parse", "GetResourcesInFile"}
    /\ pc = "start"
    /\ imp = ""
    /\ nodes = <<>>
    /\ idx = 1
    /\ state = NilState
    /\ resources = <<>>
    /\ errors = <<>>
    /\ ret = NoRet

\* GetResourcesInFile up to its call of parse, or its early return.
GetResourcesInFile ==
    /\ pc = "start"
    /\ entry = "GetResourcesInFile"
    /\ LET importName == getZappedImportName(file)
       IN  IF NotUsable(importName)
           THEN /\ pc' = "done"
                /\ ret' = [resources |-> <<>>, err |-> NilError]
                /\ UNCHANGED <<imp, nodes>>
           ELSE /\ pc' = "walk"
                /\ imp' = importName
                /\ nodes' = Flatten(file)
                /\ UNCHANGED ret
    /\ UNCHANGED <<file, entry, idx, state, resources, errors>>

\* parse called directly with the file's import name, as the tests do.
ParseDirect ==
    /\ pc = "start"
    /\ entry = "parse"
    /\ pc' = "walk"
    /\ imp' = getZappedImportName(file)
    /\ nodes' = Flatten(file)
    /\ UNCHANGED <<file, entry, idx, state, resources, errors, ret>>

\* One call of the ast.Inspect callback.
Inspect ==
    /\ pc = "walk"
    /\ idx <= Len(nodes)
    /\ LET st == VisitNode([state |-> state, resources |-> resources, errors |-> errors],
                           nodes[idx], imp)
       IN  /\ state' = st.state
           /\ resources' = st.resources
           /\ errors' = st.errors
    /\ idx' = idx + 1
    /\ UNCHANGED <<file, entry, pc, imp, nodes, ret>>

\* return resources, errors.SafeReturn()
ParseReturn ==
    /\ pc = "walk"
    /\ idx > Len(nodes)
    /\ pc' = "done"
    /\ ret' = [resources |-> resources, err |-> SafeReturn(errors)]
    /\ UNCHANGED <<file, entry, imp, nodes, idx, state, resources, errors>>

PathIdle ==
    /\ pkgPath = <<>>
    /\ base = <<>>
    /\ fixed = <<>>
    /\ rpc = "returned"

EmbedIdle ==
    /\ disk = <<>>
    /\ roots = <<>>
    /\ ri = 1
    /\ dirs = <<>>
    /\ embErrors = <<>>
    /\ readDirs = <<>>
    /\ readFiles = <<>>
    /\ edits = 0
    /\ epc = "returned"

\* No call of GenerateCode was made yet.
NoCode == [formatted |-> <<>>, err |-> NilError]

GenIdle ==
    /\ devMode = FALSE
    /\ code = NoCode
    /\ gens = 0

\* The zero value Directory{}.
ZeroDirectory == [directories |-> <<>>, files |-> <<>>, devPath |-> <<"">>]

\* No runtime call was made yet.
NoResult == [call |-> "", recv |-> <<>>, name |-> <<>>, value |-> <<>>, err |-> NilError]

\* Package zapped before any init function ran: developmentMode is true and
\* the resource table is empty.
RuntimeIdle ==
    /\ developmentMode = TRUE
    /\ zappedResources = <<>>
    /\ locals = <<>>
    /\ cur = ZeroDirectory
    /\ result = NoResult
    /\ calls = 0
    /\ trail = <<>>

\* No file was written to zapped/zap.embed.go.
NoFile == [exists |-> FALSE, content |-> <<>>]

\* main is not running.
MainIdle ==
    /\ packages = <<>>
    /\ mi = 1
    /\ mres = <<>>
    /\ pret = NoRet
    /\ mpc = "idle"
    /\ exitCode = -1
    /\ stdout = <<>>
    /\ embedFile = NoFile

ScanNext ==
    \/ GetResourcesInFile /\ UNCHANGED <<mainVars, pathVars, embedVars, genVars, rtVars>>
    \/ ParseDirect /\ UNCHANGED <<mainVars, pathVars, embedVars, genVars, rtVars>>
    \/ Inspect /\ UNCHANGED <<mainVars, pathVars, embedVars, genVars, rtVars>>
    \/ ParseReturn /\ UNCHANGED <<mainVars, pathVars, embedVars, genVars, rtVars>>

InitScan == ScanInit /\ PathIdle /\ EmbedIdle /\ GenIdle /\ RuntimeIdle /\ MainIdle

SpecScan == InitScan /\ [][ScanNext]_vars

----------------------------------------------------------------------------
(* Scanner: what the claims speak of. *)

\* The file is scanned under a named import of the embedding library.
NamedImport(f) == ~NotUsable(getZappedImportName(f))

\* s is a call lib.Resource(...).
IsResourceCall(s) == s.form \in {"call", "define"} /\ s.qual = "lib" /\ s.fn = "Resource"

\* s is lib.Resource("key", "path"), both arguments string literals.
WellFormed(s) ==
    /\ IsResourceCall(s)
    /\ Len(s.args) = 2
    /\ s.args[1].a = "str"
    /\ s.args[2].a = "str"

\* s names the library or an identifier spelled like the import name alias.
UsesAlias(s, alias) == s.qual = "lib" \/ s.qual = alias

\* The statement a source offset lies in (0: before the first statement).
StmtAt(p) == p \div Stride

\* The diagnostics positioned in statement i after its first offset.
DiagsIn(errs, i) ==
    SelectSeq(errs, LAMBDA e : e.pos > PosOf(i, 0) /\ e.pos < PosOf(i + 1, 0))

BadTypeMsg == "calls to Resource() require string literals"

\* The resource written by the literals of a well-formed call.
ResourceOf(s) == [Key |-> s.args[1].content, Path |-> s.args[2].content]

RECURSIVE ResourcesOfWellFormed(_)
ResourcesOfWellFormed(stmts) ==
    IF stmts = <<>> THEN <<>>
    ELSE (IF WellFormed(Head(stmts)) THEN <<ResourceOf(Head(stmts))>> ELSE <<>>)
         \o ResourcesOfWellFormed(Tail(stmts))

\* The number of calls lib.Resource("key", ...) among the first n statements.
KeyedBefore(stmts, n) ==
    Cardinality({j \in 1..n : /\ IsResourceCall(stmts[j])
                              /\ Len(stmts[j].args) >= 1
                              /\ stmts[j].args[1].a = "str"})

\* The file with the import of the embedding library named newName.
Renamed(f, newName) ==
    [f EXCEPT !.imports =
        [k \in DOMAIN f.imports |->
            IF HasZappedSuffix(f.imports[k].path)
            THEN [f.imports[k] EXCEPT !.name = newName]
            ELSE f.imports[k]]]

\* C1: a file whose only uses of the (named) import are N well-formed calls
\* yields exactly the N resources of those calls, in source order, with the
\* key and path stripped of their quotes, and a nil error.
C1_WellFormedCallsExtracted ==
    (/\ pc = "done"
     /\ NamedImport(file)
     /\ \A i \in DOMAIN file.stmts :
           WellFormed(file.stmts[i]) \/ ~UsesAlias(file.stmts[i], getZappedImportName(file)))
    => /\ ret.resources = ResourcesOfWellFormed(file.stmts)
       /\ ret.err = NilError

C1_Witness ==
    /\ pc = "done"
    /\ NamedImport(file)
    /\ Len(file.stmts) = 2
    /\ \A i \in DOMAIN file.stmts : WellFormed(file.stmts[i])
    /\ file.stmts[1] # file.stmts[2]
    /\ Len(ret.resources) = 2

\* Statement i is lib.Resource(a1, a2) with a1 not a string literal.
BadKeyCall(f, i) ==
    /\ i \in DOMAIN f.stmts
    /\ IsResourceCall(f.stmts[i])
    /\ Len(f.stmts[i].args) = 2
    /\ f.stmts[i].args[1].a # "str"

C2_Diag ==
    (pc = "done" /\ NamedImport(file))
    => \A i \in DOMAIN file.stmts :
          BadKeyCall(file, i)
          => DiagsIn(ret.err.errs, i) = <<[pos |-> PosOf(i, 2), msg |-> BadTypeMsg]>>

C2_Step ==
    (/\ pc = "walk"
     /\ idx <= Len(nodes)
     /\ BadKeyCall(file, StmtAt(nodes[idx].pos)))
    => resources' = resources

BadPathCall(f, i) ==
    /\ i \in DOMAIN f.stmts
    /\ IsResourceCall(f.stmts[i])
    /\ Len(f.stmts[i].args) = 2
    /\ f.stmts[i].args[1].a = "str"
    /\ f.stmts[i].args[2].a # "str"

\* C3: a call lib.Resource("k", a2) whose second argument is not a string
\* literal yields exactly one "require string literals" diagnostic, at the
\* position of a2, and the result holds the key-only resource {k, ""} at the
\* call's place in source order.
C3_BadPathOneDiagKeyOnly ==
    (pc = "done" /\ NamedImport(file))
    => \A i \in DOMAIN file.stmts :
          BadPathCall(file, i)
          => /\ DiagsIn(ret.err.errs, i) = <<[pos |-> PosOf(i, 3), msg |-> BadTypeMsg]>>
             /\ KeyedBefore(file.stmts, i) \in DOMAIN ret.resources
             /\ ret.resources[KeyedBefore(file.stmts, i)]
                  = [Key |-> file.stmts[i].args[1].content, Path |-> <<>>]

C3_Witness ==
    /\ pc = "done"
    /\ NamedImport(file)
    /\ Len(file.stmts) = 2
    /\ WellFormed(file.stmts[1])
    /\ BadPathCall(file, 2)
    /\ file.stmts[2].args[2].a = "call"
    /\ Len(ret.resources) = 2

\* The result of scanning the file with its import renamed to newName.
ScanRenamed(f, newName) ==
    LET g == Renamed(f, newName)
    IN  parse(Flatten(g), getZappedImportName(g))

\* C4: scanning the same file under another named alias (import name and
\* call qualifiers renamed together) returns the same resources and as many
\* diagnostics.
C4_AliasRenamingInvariant ==
    (pc = "done" /\ NamedImport(file))
    => \A newName \in {"", "z", "zp"} :
          /\ ScanRenamed(file, newName).resources = ret.resources
          /\ Len(ScanRenamed(file, newName).err.errs) = Len(ret.err.errs)

C4_Witness ==
    /\ pc = "done"
    /\ imp = "z"
    /\ Len(ret.resources) = 2
    /\ Len(ret.err.errs) = 1
    /\ ScanRenamed(file, "").resources = ret.resources

\* The file has an unqualified call Resource("key", "path") under a
\* dot-import of the library.
DotImportWithCall(f) ==
    /\ getZappedImportName(f) = "."
    /\ \E i \in DOMAIN f.stmts : WellFormed(f.stmts[i])

C6_UnusableImportReturnsNothing ==
    (/\ pc = "done"
     /\ entry = "GetResourcesInFile"
     /\ getZappedImportName(file) \in {"", "_", "."})
    => /\ ret.resources = <<>>
       /\ ret.err = NilError

C6_Witness ==
    /\ pc = "done"
    /\ entry = "GetResourcesInFile"
    /\ getZappedImportName(file) = "_"
    /\ \E i \in DOMAIN file.stmts : WellFormed(file.stmts[i])
    /\ \E i \in DOMAIN file.stmts : file.stmts[i].qual = "_"

\* The calls lib.Resource(...) that are not of the literal-literal shape.
Malformed(f) == {i \in DOMAIN f.stmts : IsResourceCall(f.stmts[i]) /\ ~WellFormed(f.stmts[i])}

\* C7: every call lib.Resource(...) that is not of the shape of two string
\* literals, whatever its number of arguments and its place in the file,
\* produces a diagnostic of its own: parse returns at least as many
\* diagnostics as there are such calls.
C7_EveryMalformedCallDiagnosed ==
    (pc = "done" /\ entry = "parse" /\ NamedImport(file))
    => Len(ret.err.errs) >= Cardinality(Malformed(file))

\* The call sites parse is to report: malformed calls of Resource and calls
\* of another name through the import.
Offending(f) ==
    {i \in DOMAIN f.stmts : f.stmts[i].form \in {"call", "define"} /\ f.stmts[i].qual = "lib"
                            /\ ~WellFormed(f.stmts[i])}

\* C8: the returned aggregate holds a diagnostic for each offending call
\* site, in document order, and every well-formed call after an offending
\* one is extracted.
C8_AllOffendingSitesReported ==
    (pc = "done" /\ entry = "parse" /\ NamedImport(file))
    => /\ Len(ret.err.errs) >= Cardinality(Offending(file))
       /\ \A m, n \in DOMAIN ret.err.errs : m < n => ret.err.errs[m].pos <= ret.err.errs[n].pos
       /\ \A i \in Offending(file) : \A j \in DOMAIN file.stmts :
             (i < j /\ WellFormed(file.stmts[j]))
             => ResourceOf(file.stmts[j]) \in Range(ret.resources)

----------------------------------------------------------------------------
(* filepath.Join and CorrectlyPathResources. A path string is the sequence  *)
(* of its segments, as strings.Split(p, "/") gives them: "" is <<"">>, "/"  *)
(* is <<"", "">>, "project/" is <<"project", "">>.                          *)

EmptyString == <<"">>

\* filepath.Clean's pass over the segments: empty and "." segments vanish,
\* ".." removes the segment before it, is dropped at the root and is kept at
\* the head of a relative path.
RECURSIVE CleanSegs(_, _, _)
CleanSegs(out, segs, rooted) ==
    IF segs = <<>> THEN out
    ELSE LET h == Head(segs)
             next == CASE h \in {"", "."} -> out
                       [] h = ".." ->
                            IF out # <<>> /\ out[Len(out)] # ".."
                            THEN SubSeq(out, 1, Len(out) - 1)
                            ELSE IF rooted THEN out ELSE Append(out, "..")
                       [] OTHER -> Append(out, h)
         IN  CleanSegs(next, Tail(segs), rooted)

\* filepath.Clean
Clean(p) ==
    IF p = EmptyString THEN <<".">>
    ELSE LET rooted == p[1] = ""
             out == CleanSegs(<<>>, p, rooted)
         IN  IF rooted THEN <<"">> \o (IF out = <<>> THEN <<"">> ELSE out)
             ELSE IF out = <<>> THEN <<".">> ELSE out

\* filepath.Join: the elements from the first non-empty one on, joined by
\* the separator and cleaned; the empty string when all are empty.
RECURSIVE FilepathJoin(_)
FilepathJoin(elems) ==
    IF elems = <<>> THEN EmptyString
    ELSE IF Head(elems) # EmptyString THEN Clean(Concat(elems))
    ELSE FilepathJoin(Tail(elems))

\* The loop of CorrectlyPathResources joining the segments with no Clean.
RECURSIVE CorrectlyPathLoop_Concat(_, _, _)
CorrectlyPathLoop_Concat(pkg, rest, acc) ==
    IF rest = <<>> THEN acc
    ELSE CorrectlyPathLoop_Concat(pkg, Tail(rest),
             Append(acc, [Key |-> Head(rest).Key, Path |-> pkg \o Head(rest).Path]))

\* The loop of CorrectlyPathResources: acc is the slice built so far.
RECURSIVE CorrectlyPathLoop(_, _, _)
CorrectlyPathLoop(pkg, rest, acc) ==
    IF rest = <<>> THEN acc
    ELSE CorrectlyPathLoop(pkg, Tail(rest),
             Append(acc, [Key |-> Head(rest).Key,
                          Path |-> FilepathJoin(<<pkg, Head(rest).Path>>)]))

CorrectlyPathResources(pkg, b) == CorrectlyPathLoop(pkg, b, <<>>)

\* The inputs: package directories and relative paths.
SegChoices == {"", "..", "a"}
PathStrings == {p \in SeqsUpTo(SegChoices, MaxSegs) : Len(p) >= 1}
PkgChoices == { <<"project", "">>, <<"", "p">>, <<".", "p">>, EmptyString }
ResourceChoices ==
    {[Key |-> KeyA, Path |-> p] : p \in PathStrings}
    \cup {[Key |-> KeyB, Path |-> <<"scripts", "">>], [Key |-> KeyB, Path |-> <<".", "sql">>]}

PathInit ==
    /\ pkgPath \in PkgChoices
    /\ base \in SeqsUpTo(ResourceChoices, MaxBase)
    /\ fixed = <<>>
    /\ rpc = "call"

CallCorrectlyPathResources ==
    /\ rpc = "call"
    /\ fixed' = CorrectlyPathResources(pkgPath, base)
    /\ rpc' = "returned"
    /\ UNCHANGED <<pkgPath, base>>

ScanIdle ==
    /\ file = [imports |-> <<>>, stmts |-> <<>>]
    /\ entry = "parse"
    /\ pc = "done"
    /\ imp = ""
    /\ nodes = <<>>
    /\ idx = 1
    /\ state = NilState
    /\ resources = <<>>
    /\ errors = <<>>
    /\ ret = NoRet

PathNext == CallCorrectlyPathResources /\ UNCHANGED <<mainVars, scanVars, embedVars, genVars, rtVars>>

InitPath == ScanIdle /\ PathInit /\ EmbedIdle /\ GenIdle /\ RuntimeIdle /\ MainIdle

SpecPath == InitPath /\ [][PathNext]_vars

\* A path with no empty or "." segment and no trailing separator: the empty
\* string, ".", "/", or segments of which only a leading one may be empty.
IsClean(p) ==
    \/ p \in {EmptyString, <<".">>, <<"", "">>}
    \/ \A k \in DOMAIN p : /\ p[k] # "."
                           /\ p[k] = "" => (k = 1 /\ Len(p) > 1)

C9_Result ==
    rpc = "returned"
    => /\ Len(fixed) = Len(base)
       /\ \A i \in DOMAIN base :
             /\ fixed[i].Key = base[i].Key
             /\ fixed[i].Path = FilepathJoin(<<pkgPath, base[i].Path>>)
             /\ IsClean(fixed[i].Path)

\* C9: CorrectlyPathResources returns as many resources as it was given, in
\* the same order, each with its key and with the cleaned join of the package
\* directory and its path, and it leaves its arguments as they were.
C9_PathsJoinedToPackageDir == []C9_Result /\ [][base' = base /\ pkgPath' = pkgPath]_vars

C9_Witness ==
    /\ rpc = "returned"
    /\ pkgPath = <<"project", "">>
    /\ Len(base) = 2
    /\ base[1] = [Key |-> KeyB, Path |-> <<"scripts", "">>]
    /\ base[2].Path = <<"..", "a">>
    /\ fixed = <<[Key |-> KeyB, Path |-> <<"project", "scripts">>], [Key |-> KeyA, Path |-> <<"a">>]>>

----------------------------------------------------------------------------
(* EmbedDirectories. The disk holds the tree                                *)
(*   /r        .git/  a/  c/  f  zap.embed.go                               *)
(*   /r/.git   c                                                            *)
(*   /r/a      b/  g                                                        *)
(*   /r/a/b    h  zap.embed.go                                              *)
(*   /r/c      \n   (a file whose name is a backslash and the letter n)     *)
(* of which the readability of each directory and file and the contents of  *)
(* each file (1 or 2) may differ from run to run and change during a run.   *)

DirR == <<"", "r">>
DirGit == <<"", "r", ".git">>
DirA == <<"", "r", "a">>
DirB == <<"", "r", "a", "b">>
DirC == <<"", "r", "c">>

AllDirs == {DirR, DirGit, DirA, DirB, DirC}

DirEntry(n, d) == [name |-> n, isDir |-> d]

\* ioutil.ReadDir's listing of a directory, sorted by file name.
Entries(dpath) ==
    CASE dpath = DirR -> <<DirEntry(".git", TRUE), DirEntry("a", TRUE), DirEntry("c", TRUE),
                           DirEntry("f", FALSE), DirEntry("zap.embed.go", FALSE)>>
      [] dpath = DirGit -> <<DirEntry("c", FALSE)>>
      [] dpath = DirA -> <<DirEntry("b", TRUE), DirEntry("g", FALSE)>>
      [] dpath = DirB -> <<DirEntry("h", FALSE), DirEntry("zap.embed.go", FALSE)>>
      [] dpath = DirC -> <<DirEntry("\\n", FALSE)>>

AllFiles ==
    UNION {{Append(d, Entries(d)[k].name) : k \in DOMAIN Entries(d)} : d \in AllDirs} \ AllDirs

\* An error of ioutil.ReadDir or ioutil.ReadFile.
IOError(op, path) == [isNil |-> FALSE, op |-> op, path |-> path]

\* The Directory built by dfn before any entry is handled.
EmptyDirectory == [SubDirs |-> <<>>, Files |-> <<>>]

Bump(counts, path) == [counts EXCEPT ![path] = @ + 1]

\* dfn: d is the disk, env the variables dfn shares with its caller and with
\* the world, [dirs, rd, rf]: the map dirs and the counts of ReadDir and
\* ReadFile calls. The result is [dir, err, dirs, rd, rf]; dir is meaningless
\* when ReadDir failed (dfn then returns nil).
RECURSIVE dfn(_, _, _)
RECURSIVE dfnEntries(_, _, _, _)

RECURSIVE dfnEntries_RelativeSubDirs(_, _, _, _)
\* The loop of dfn recording a subdirectory under its name, not its path.
dfnEntries_RelativeSubDirs(dpath, entries, d, acc) ==
    IF entries = <<>> THEN acc
    ELSE LET e == Head(entries)
             fpath == FilepathJoin(<<dpath, <<e.name>>>>)
         IN  IF e.name = ".git" \/ e.name = "zap.embed.go"
             THEN dfnEntries_RelativeSubDirs(dpath, Tail(entries), d, acc)
             ELSE IF e.isDir
             THEN LET sub == dfn(fpath, d, [dirs |-> acc.dirs, rd |-> acc.rd, rf |-> acc.rf])
                  IN  IF ~sub.err.isNil
                      THEN dfnEntries_RelativeSubDirs(dpath, Tail(entries), d,
                               [acc EXCEPT !.errs = Append(@, sub.err),
                                           !.dirs = sub.dirs, !.rd = sub.rd, !.rf = sub.rf])
                      ELSE dfnEntries_RelativeSubDirs(dpath, Tail(entries), d,
                               [acc EXCEPT !.dir.SubDirs = Append(@, <<e.name>>),
                                           !.dirs = (fpath :> sub.dir) @@ sub.dirs,
                                           !.rd = sub.rd, !.rf = sub.rf])
             ELSE IF ~d.fileOk[fpath]
                  THEN dfnEntries_RelativeSubDirs(dpath, Tail(entries), d,
                           [acc EXCEPT !.errs = Append(@, IOError("ReadFile", fpath)),
                                       !.rf = Bump(@, fpath)])
                  ELSE dfnEntries_RelativeSubDirs(dpath, Tail(entries), d,
                           [acc EXCEPT !.dir.Files = (e.name :> d.body[fpath]) @@ @,
                                       !.rf = Bump(@, fpath)])

RECURSIVE dfnEntries_SkipGitOnly(_, _, _, _)
\* The loop of dfn skipping .git only.
dfnEntries_SkipGitOnly(dpath, entries, d, acc) ==
    IF entries = <<>> THEN acc
    ELSE LET e == Head(entries)
             fpath == FilepathJoin(<<dpath, <<e.name>>>>)
         IN  IF e.name = ".git"
             THEN dfnEntries_SkipGitOnly(dpath, Tail(entries), d, acc)
             ELSE IF e.isDir
             THEN LET sub == dfn(fpath, d, [dirs |-> acc.dirs, rd |-> acc.rd, rf |-> acc.rf])
                  IN  IF ~sub.err.isNil
                      THEN dfnEntries_SkipGitOnly(dpath, Tail(entries), d,
                               [acc EXCEPT !.errs = Append(@, sub.err),
                                           !.dirs = sub.dirs, !.rd = sub.rd, !.rf = sub.rf])
                      ELSE dfnEntries_SkipGitOnly(dpath, Tail(entries), d,
                               [acc EXCEPT !.dir.SubDirs = Append(@, fpath),
                                           !.dirs = (fpath :> sub.dir) @@ sub.dirs,
                                           !.rd = sub.rd, !.rf = sub.rf])
             ELSE IF ~d.fileOk[fpath]
                  THEN dfnEntries_SkipGitOnly(dpath, Tail(entries), d,
                           [acc EXCEPT !.errs = Append(@, IOError("ReadFile", fpath)),
                                       !.rf = Bump(@, fpath)])
                  ELSE dfnEntries_SkipGitOnly(dpath, Tail(entries), d,
                           [acc EXCEPT !.dir.Files = (e.name :> d.body[fpath]) @@ @,
                                       !.rf = Bump(@, fpath)])

RECURSIVE dfnEntries_SubDirNotStored(_, _, _, _)
\* The loop of dfn listing a subdirectory without storing it in dirs.
dfnEntries_SubDirNotStored(dpath, entries, d, acc) ==
    IF entries = <<>> THEN acc
    ELSE LET e == Head(entries)
             fpath == FilepathJoin(<<dpath, <<e.name>>>>)
         IN  IF e.name = ".git" \/ e.name = "zap.embed.go"
             THEN dfnEntries_SubDirNotStored(dpath, Tail(entries), d, acc)
             ELSE IF e.isDir
             THEN LET sub == dfn(fpath, d, [dirs |-> acc.dirs, rd |-> acc.rd, rf |-> acc.rf])
                  IN  IF ~sub.err.isNil
                      THEN dfnEntries_SubDirNotStored(dpath, Tail(entries), d,
                               [acc EXCEPT !.errs = Append(@, sub.err),
                                           !.dirs = sub.dirs, !.rd = sub.rd, !.rf = sub.rf])
                      ELSE dfnEntries_SubDirNotStored(dpath, Tail(entries), d,
                               [acc EXCEPT !.dir.SubDirs = Append(@, fpath),
                                           !.dirs = sub.dirs,
                                           !.rd = sub.rd, !.rf = sub.rf])
             ELSE IF ~d.fileOk[fpath]
                  THEN dfnEntries_SubDirNotStored(dpath, Tail(entries), d,
                           [acc EXCEPT !.errs = Append(@, IOError("ReadFile", fpath)),
                                       !.rf = Bump(@, fpath)])
                  ELSE dfnEntries_SubDirNotStored(dpath, Tail(entries), d,
                           [acc EXCEPT !.dir.Files = (e.name :> d.body[fpath]) @@ @,
                                       !.rf = Bump(@, fpath)])

\* The loop of dfn over the entries left; acc is [dir, errs, dirs, rd, rf].
dfnEntries(dpath, entries, d, acc) ==
    IF entries = <<>> THEN acc
    ELSE LET e == Head(entries)
             fpath == FilepathJoin(<<dpath, <<e.name>>>>)
         IN  IF e.name = ".git" \/ e.name = "zap.embed.go"
             THEN dfnEntries(dpath, Tail(entries), d, acc)
             ELSE IF e.isDir
             THEN LET sub == dfn(fpath, d, [dirs |-> acc.dirs, rd |-> acc.rd, rf |-> acc.rf])
                  IN  IF ~sub.err.isNil
                      THEN dfnEntries(dpath, Tail(entries), d,
                               [acc EXCEPT !.errs = Append(@, sub.err),
                                           !.dirs = sub.dirs, !.rd = sub.rd, !.rf = sub.rf])
                      ELSE dfnEntries(dpath, Tail(entries), d,
                               [acc EXCEPT !.dir.SubDirs = Append(@, fpath),
                                           !.dirs = (fpath :> sub.dir) @@ sub.dirs,
                                           !.rd = sub.rd, !.rf = sub.rf])
             ELSE IF ~d.fileOk[fpath]
                  THEN dfnEntries(dpath, Tail(entries), d,
                           [acc EXCEPT !.errs = Append(@, IOError("ReadFile", fpath)),
                                       !.rf = Bump(@, fpath)])
                  ELSE dfnEntries(dpath, Tail(entries), d,
                           [acc EXCEPT !.dir.Files = (e.name :> d.body[fpath]) @@ @,
                                       !.rf = Bump(@, fpath)])

dfn(dpath, d, env) ==
    IF ~d.dirOk[dpath]
    THEN [dir |-> EmptyDirectory, err |-> IOError("ReadDir", dpath),
          dirs |-> env.dirs, rd |-> Bump(env.rd, dpath), rf |-> env.rf]
    ELSE LET acc == dfnEntries(dpath, Entries(dpath), d,
                        [dir |-> EmptyDirectory, errs |-> <<>>,
                         dirs |-> env.dirs, rd |-> Bump(env.rd, dpath), rf |-> env.rf])
         IN  [dir |-> acc.dir, err |-> SafeReturn(acc.errs),
              dirs |-> acc.dirs, rd |-> acc.rd, rf |-> acc.rf]

\* The roots a run may be given, and the disks it may start on: every file
\* with contents 1, at most one directory or file unreadable.
RootChoices == {DirR, DirA, DirB}
KeyOf(i) == <<"K", i>>
RootLists ==
    {[i \in DOMAIN ps |-> [Key |-> KeyOf(i), Path |-> ps[i]]] : ps \in SeqsUpTo(RootChoices, MaxRoots)}
EditTargets ==
    (AllDirs \cup AllFiles)
    \ {DirGit, Append(DirGit, "c"), Append(DirR, "zap.embed.go"), Append(DirB, "zap.embed.go")}
DiskWithout(broken) ==
    [dirOk |-> [p \in AllDirs |-> p \notin broken],
     fileOk |-> [p \in AllFiles |-> p \notin broken],
     body |-> [p \in AllFiles |-> 1]]
InitialDisks == {DiskWithout({})} \cup {DiskWithout({p}) : p \in EditTargets}

EmbedInit ==
    /\ disk \in InitialDisks
    /\ roots \in RootLists
    /\ ri = 1
    /\ dirs = <<>>
    /\ embErrors = <<>>
    /\ readDirs = [p \in AllDirs |-> 0]
    /\ readFiles = [p \in AllFiles |-> 0]
    /\ edits = 0
    /\ epc = "loop"

\* A turn of the loop over the resources that leaves the loop on an error.
EmbedRoot_BreakOnError ==
    /\ epc = "loop"
    /\ ri <= Len(roots)
    /\ LET res == roots[ri]
       IN  IF res.Path \in DOMAIN dirs
           THEN /\ UNCHANGED <<dirs, embErrors, readDirs, readFiles>>
                /\ ri' = ri + 1
           ELSE LET r == dfn(res.Path, disk, [dirs |-> dirs, rd |-> readDirs, rf |-> readFiles])
                IN  /\ readDirs' = r.rd
                    /\ readFiles' = r.rf
                    /\ IF ~r.err.isNil
                       THEN /\ embErrors' = Append(embErrors, r.err)
                            /\ dirs' = r.dirs
                            /\ ri' = Len(roots) + 1
                       ELSE /\ embErrors' = embErrors
                            /\ dirs' = (res.Path :> r.dir) @@ r.dirs
                            /\ ri' = ri + 1
    /\ UNCHANGED <<disk, roots, edits, epc>>

\* One turn of the loop over the resources.
EmbedRoot ==
    /\ epc = "loop"
    /\ ri <= Len(roots)
    /\ LET res == roots[ri]
       IN  IF res.Path \in DOMAIN dirs
           THEN UNCHANGED <<dirs, embErrors, readDirs, readFiles>>
           ELSE LET r == dfn(res.Path, disk, [dirs |-> dirs, rd |-> readDirs, rf |-> readFiles])
                IN  /\ readDirs' = r.rd
                    /\ readFiles' = r.rf
                    /\ IF ~r.err.isNil
                       THEN /\ embErrors' = Append(embErrors, r.err)
                            /\ dirs' = r.dirs
                       ELSE /\ embErrors' = embErrors
                            /\ dirs' = (res.Path :> r.dir) @@ r.dirs
    /\ ri' = ri + 1
    /\ UNCHANGED <<disk, roots, edits, epc>>

\* return dirs, errors.SafeReturn()
EmbedReturn ==
    /\ epc = "loop"
    /\ ri > Len(roots)
    /\ epc' = "returned"
    /\ UNCHANGED <<disk, roots, ri, dirs, embErrors, readDirs, readFiles, edits>>

\* Another program rewrites a file between two turns of the loop.
WriteFile ==
    /\ epc = "loop"
    /\ ri <= Len(roots)
    /\ edits < MaxEdits
    /\ \E p \in AllFiles \cap EditTargets : disk' = [disk EXCEPT !.body[p] = 3 - @]
    /\ edits' = edits + 1
    /\ UNCHANGED <<roots, ri, dirs, embErrors, readDirs, readFiles, epc>>

\* Another program changes the permissions of a file or directory.
Chmod ==
    /\ epc = "loop"
    /\ ri <= Len(roots)
    /\ edits < MaxEdits
    /\ \/ \E p \in AllFiles \cap EditTargets : disk' = [disk EXCEPT !.fileOk[p] = ~@]
       \/ \E p \in AllDirs \cap EditTargets : disk' = [disk EXCEPT !.dirOk[p] = ~@]
    /\ edits' = edits + 1
    /\ UNCHANGED <<roots, ri, dirs, embErrors, readDirs, readFiles, epc>>

----------------------------------------------------------------------------
(* GenerateCode. Its output is the sequence of the statements of the        *)
(* generated init function, each a record [op, hash, lit, arg]: the text of *)
(* a statement is fixed by these four, lit being the text the template      *)
(* writes between the quotes of a string literal (or after the // of the    *)
(* comment).                                                                *)

\* strings.Count(path, string(os.PathSeparator))
SeparatorCount(path) == Len(path) - 1

\* fmt.Sprintf("_%x", sha1.Sum([]byte(path))): the identifier made from a
\* path; no two paths of the model share one.
Hash(path) == [sha1 |-> path]

\* hashMap[subd] of a path that hashMap does not hold: the empty string.
NoHash == [sha1 |-> <<>>]

\* The orders in which a range over a map may produce the keys S: all.
Perms(S) ==
    {o \in [1..Cardinality(S) -> S] : \A i, j \in 1..Cardinality(S) : i # j => o[i] # o[j]}

\* sortedDirs after sort.Slice ordering the keys by ascending count.
sortedDirs_Ascending(ds) ==
    {o \in Perms(DOMAIN ds) :
        \A i, j \in DOMAIN o : i < j => SeparatorCount(o[i]) <= SeparatorCount(o[j])}

\* sortedDirs after the range over dirs and sort.Slice: the keys by
\* descending separator count, keys of equal count in the order the range
\* produced them (sort.Slice compares the counts only).
sortedDirs(ds) ==
    {o \in Perms(DOMAIN ds) :
        \A i, j \in DOMAIN o : i < j => SeparatorCount(o[i]) >= SeparatorCount(o[j])}

\* The segments of a cleaned path, the root "/" having the one segment "".
CleanedSegs(p) == LET c == Clean(p) IN IF c = <<"", "">> THEN <<"">> ELSE c

RECURSIVE CommonPrefixLen(_, _)
CommonPrefixLen(b, t) ==
    IF b = <<>> \/ t = <<>> \/ Head(b) # Head(t) THEN 0
    ELSE 1 + CommonPrefixLen(Tail(b), Tail(t))

\* filepath.Rel on the segments b of the cleaned base and t of the cleaned
\* target, c being the length of their common prefix: ".." for each segment
\* of the base past the common prefix, then the target's segments past it;
\* an error when one path is rooted and the other is not or when the base's
\* rest holds "..".
RelOfSegs(b, t, c, targpath) ==
    IF (b[1] = "") # (t[1] = "") \/ ".." \in Range(SubSeq(b, c + 1, Len(b)))
    THEN [path |-> EmptyString, err |-> [isNil |-> FALSE, op |-> "Rel", path |-> targpath]]
    ELSE IF c = Len(b) /\ c = Len(t)
    THEN [path |-> <<".">>, err |-> NilError]
    ELSE [path |-> [k \in 1..(Len(b) - c) |-> ".."] \o SubSeq(t, c + 1, Len(t)),
          err |-> NilError]

\* filepath.Rel(basepath, targpath)
FilepathRel(basepath, targpath) ==
    RelOfSegs(CleanedSegs(basepath), CleanedSegs(targpath),
              CommonPrefixLen(CleanedSegs(basepath), CleanedSegs(targpath)), targpath)

\* The byte order of the strings that are names in the model, which is the
\* order in which ioutil.ReadDir lists them and the template ranges over the
\* keys of a map.
NameOrder == <<".", "..", ".git", "\\n", "a", "b", "c", "f", "g", "h", "zap.embed.go">>
Rank(name) == CHOOSE k \in DOMAIN NameOrder : NameOrder[k] = name

RECURSIVE SortedNames(_)
SortedNames(S) ==
    IF S = {} THEN <<>>
    ELSE LET m == CHOOSE x \in S : \A y \in S : Rank(x) <= Rank(y)
         IN  <<m>> \o SortedNames(S \ {m})

\* The same for relative paths, which differ in their first segment.
RECURSIVE SortedPaths(_)
SortedPaths(S) ==
    IF S = {} THEN <<>>
    ELSE LET m == CHOOSE x \in S : \A y \in S : Rank(x[1]) <= Rank(y[1])
         IN  <<m>> \o SortedPaths(S \ {m})

\* One turn of the inner loop of GenerateCode over dir.SubDirs: subd is the
\* subdirectory, r what filepath.Rel(path, subd) returned, acc is [Dirs, errs],
\* Dirs the map dt.Dirs built so far.
subDirStep(subd, r, hashMap, acc) ==
    IF ~r.err.isNil
    THEN [acc EXCEPT !.errs = Append(@, r.err)]
    ELSE [acc EXCEPT !.Dirs = (r.path :> (IF subd \in DOMAIN hashMap
                                          THEN hashMap[subd] ELSE NoHash)) @@ @]

RECURSIVE subDirLoop(_, _, _, _)
subDirLoop(path, subds, hashMap, acc) ==
    IF subds = <<>> THEN acc
    ELSE subDirLoop(path, Tail(subds), hashMap,
                    subDirStep(Head(subds), FilepathRel(path, Head(subds)), hashMap, acc))

\* One turn of the loop of GenerateCode over sortedDirs: sub is what the
\* inner loop left, acc is [Dirs, errs], Dirs the slice tmplData.Dirs so far.
tmplDirStep(path, dir, sub, acc) ==
    [Dirs |-> Append(acc.Dirs, [Name |-> path, Hash |-> Hash(path),
                                Files |-> dir.Files, Dirs |-> sub.Dirs]),
     errs |-> sub.errs]

RECURSIVE tmplDirs(_, _, _, _)
tmplDirs(ds, rest, hashMap, acc) ==
    IF rest = <<>> THEN acc
    ELSE tmplDirs(ds, Tail(rest), (Head(rest) :> Hash(Head(rest))) @@ hashMap,
                  tmplDirStep(Head(rest), ds[Head(rest)],
                              subDirLoop(Head(rest), ds[Head(rest)].SubDirs,
                                         (Head(rest) :> Hash(Head(rest))) @@ hashMap,
                                         [Dirs |-> <<>>, errs |-> acc.errs]),
                              acc))

Stmt(op, hash, lit, arg) == [op |-> op, hash |-> hash, lit |-> lit, arg |-> arg]

\* The template's output for one TmplDir: the comment and the declaration,
\* then one assignment per key of Dirs and one per key of Files, each range
\* in the order of the keys (dkeys, fkeys).
RenderKeys(dt, dkeys, fkeys) ==
    <<Stmt("declare", dt.Hash, dt.Name, <<>>)>>
    \o [k \in DOMAIN dkeys |-> Stmt("directories", dt.Hash, dkeys[k], dt.Dirs[dkeys[k]])]
    \o [k \in DOMAIN fkeys |-> Stmt("files", dt.Hash, fkeys[k], dt.Files[fkeys[k]])]

RenderDir(dt) == RenderKeys(dt, SortedPaths(DOMAIN dt.Dirs), SortedNames(DOMAIN dt.Files))

\* tmpl.Execute(&buf, tmplData)
Render(dm, tds) ==
    <<Stmt("developmentMode", NoHash, "", dm)>> \o Concat([k \in DOMAIN tds |-> RenderDir(tds[k])])

\* format.Source: the source reformatted, or an error when it does not parse;
\* of the statements above the one that does not parse is the assignment
\* of & followed by an empty name.
FormatSource(stmts) ==
    IF \A k \in DOMAIN stmts : stmts[k].op = "directories" => stmts[k].arg # NoHash
    THEN [formatted |-> stmts, err |-> NilError]
    ELSE [formatted |-> <<>>, err |-> [isNil |-> FALSE, op |-> "format.Source", path |-> <<>>]]

\* The return of GenerateCode: errs are the errors of filepath.Rel, f is what
\* format.Source returned.
GenerateReturn(errs, f) ==
    [formatted |-> f.formatted,
     err |-> SafeReturn(IF f.err.isNil THEN errs ELSE Append(errs, f.err))]

GenerateFrom(dm, acc) == GenerateReturn(acc.errs, FormatSource(Render(dm, acc.Dirs)))

\* GenerateCode(dirs, devMode), order being the value of sortedDirs.
GenerateCode(ds, dm, order) ==
    GenerateFrom(dm, tmplDirs(ds, order, <<>>, [Dirs |-> <<>>, errs |-> <<>>]))

\* A call of GenerateCode on the mapping EmbedDirectories returned.
CallGenerateCode ==
    /\ epc = "returned"
    /\ gens < MaxGens
    /\ \E dm \in BOOLEAN, order \in sortedDirs(dirs) :
          /\ devMode' = dm
          /\ code' = GenerateCode(dirs, dm, order)
    /\ gens' = gens + 1
    /\ UNCHANGED <<embedVars, rtVars>>

----------------------------------------------------------------------------
(* Package zapped: the generated init function and the runtime calls. The   *)
(* names given to File and Directory are path strings, hence sequences of   *)
(* segments; a *Directory in a directories map is the identifier of the     *)
(* variable it points to.                                                   *)

\* The string that the interpreted string literal "raw" denotes: the escape
\* sequence \n denotes a line feed; the other names of the model hold no
\* backslash and denote themselves.
Unquote(raw) == IF raw = "\\n" THEN "\n" ELSE raw

UnquotePath(lit) == [k \in DOMAIN lit |-> Unquote(lit[k])]

\* The statements compile: every variable whose address is taken was
\* declared by an earlier statement, and none is declared twice.
Compiles(stmts) ==
    /\ \A k \in DOMAIN stmts :
          stmts[k].op = "directories"
          => \E j \in 1..(k - 1) : stmts[j].op = "declare" /\ stmts[j].hash = stmts[k].arg
    /\ \A j, k \in DOMAIN stmts :
          (j < k /\ stmts[j].op = "declare" /\ stmts[k].op = "declare")
          => stmts[j].hash # stmts[k].hash

\* The execution of the generated init: st is [developmentMode, locals].
RECURSIVE ExecInit(_, _)
ExecInit(stmts, st) ==
    IF stmts = <<>> THEN st
    ELSE LET s == Head(stmts)
             next ==
               CASE s.op = "developmentMode" -> [st EXCEPT !.developmentMode = s.arg]
                 [] s.op = "declare" ->
                      [st EXCEPT !.locals = (s.hash :> ZeroDirectory) @@ @]
                 [] s.op = "directories" ->
                      [st EXCEPT !.locals[s.hash].directories = (UnquotePath(s.lit) :> s.arg) @@ @]
                 [] s.op = "files" ->
                      [st EXCEPT !.locals[s.hash].files =
                                     (<<Unquote(s.lit)>> :> [contents |-> s.arg]) @@ @]
         IN  ExecInit(Tail(stmts), next)

\* A program built with the generated file starts: main wrote the file
\* because EmbedDirectories and GenerateCode returned no error.
RunInit ==
    /\ epc = "returned"
    /\ gens >= 1
    /\ embErrors = <<>>
    /\ code.err.isNil
    /\ Compiles(code.formatted)
    /\ LET st == ExecInit(code.formatted, [developmentMode |-> developmentMode, locals |-> <<>>])
       IN  /\ developmentMode' = st.developmentMode
           /\ locals' = st.locals
    /\ epc' = "initialized"
    /\ UNCHANGED <<disk, roots, ri, dirs, embErrors, readDirs, readFiles, edits>>
    /\ UNCHANGED <<genVars, zappedResources, cur, result, calls, trail>>

\* The zero value File{}: contents 0 stands for the nil slice, the contents
\* of the files on the disk being 1 and 2.
ZeroFile == [contents |-> 0]

\* fmt.Errorf("... %s could not be found", name)
NotFound(what, name) == [isNil |-> FALSE, op |-> what, path |-> name]

\* ioutil.ReadFile(fpath) on disk d.
ReadFile(d, fpath) ==
    IF fpath \in AllFiles /\ d.fileOk[fpath]
    THEN [bytes |-> d.body[fpath], err |-> NilError]
    ELSE [bytes |-> <<>>, err |-> IOError("ReadFile", fpath)]

\* path.Dir: the path without its last element, cleaned.
PathDir(p) ==
    LET d == SubSeq(p, 1, Len(p) - 1)
    IN  IF d = <<>> THEN <<".">> ELSE Clean(d \o <<"">>)

\* Directory.File reading name without joining it to devPath.
File_IgnoresDevPath(dir, name) ==
    IF ~developmentMode
    THEN IF name \in DOMAIN dir.files
         THEN [value |-> dir.files[name], err |-> NilError]
         ELSE [value |-> ZeroFile, err |-> NotFound("file", name)]
    ELSE LET fpath == FilepathJoin(<<name>>)
             r == ReadFile(disk, fpath)
         IN  IF ~r.err.isNil
             THEN [value |-> ZeroFile, err |-> r.err]
             ELSE [value |-> [contents |-> r.bytes], err |-> NilError]

\* Directory.File
File(dir, name) ==
    IF ~developmentMode
    THEN IF name \in DOMAIN dir.files
         THEN [value |-> dir.files[name], err |-> NilError]
         ELSE [value |-> ZeroFile, err |-> NotFound("file", name)]
    ELSE LET fpath == FilepathJoin(<<dir.devPath, name>>)
             r == ReadFile(disk, fpath)
         IN  IF ~r.err.isNil
             THEN [value |-> ZeroFile, err |-> r.err]
             ELSE [value |-> [contents |-> r.bytes], err |-> NilError]

\* Directory.Directory returning a nil error on a miss.
Directory_NilErrorOnMiss(dir, name) ==
    IF ~developmentMode
    THEN IF name \in DOMAIN dir.directories
         THEN [value |-> locals[dir.directories[name]], err |-> NilError]
         ELSE [value |-> <<>>, err |-> NilError]
    ELSE [value |-> [ZeroDirectory EXCEPT !.devPath = FilepathJoin(<<dir.devPath, name>>)],
          err |-> NilError]

\* Directory.Directory; value <<>> is the nil *Directory.
Directory(dir, name) ==
    IF ~developmentMode
    THEN IF name \in DOMAIN dir.directories
         THEN [value |-> locals[dir.directories[name]], err |-> NilError]
         ELSE [value |-> <<>>, err |-> NotFound("directory", name)]
    ELSE [value |-> [ZeroDirectory EXCEPT !.devPath = FilepathJoin(<<dir.devPath, name>>)],
          err |-> NilError]

\* Resource(key, dir); caller is what runtime.Caller(1) returns, [fn, ok].
Resource(key, dir, caller) ==
    IF ~developmentMode
    THEN IF key \in DOMAIN zappedResources
         THEN [value |-> locals[zappedResources[key]], err |-> NilError]
         ELSE [value |-> <<>>, err |-> NotFound("resource", key)]
    ELSE IF ~caller.ok
         THEN [value |-> <<>>, err |-> NotFound("caller", dir)]
         ELSE [value |-> [ZeroDirectory EXCEPT
                              !.devPath = FilepathJoin(<<PathDir(caller.fn), dir>>)],
               err |-> NilError]

\* The arguments a program calls the library with.
MainFile == <<"", "r", "main.go">>
Callers == {[fn |-> MainFile, ok |-> TRUE], [fn |-> EmptyString, ok |-> FALSE]}
KeyArgs == {KeyOf(1), <<"ZAP_RESOURCE">>}
DirArgs == {<<"a">>, EmptyString, <<"a", "..", "c">>}
NameArgs == {<<"a">>, <<"b">>, <<"..">>, <<"g">>, <<"h">>}

\* The Directory values the methods are called on: the one the program got
\* from its latest successful call (Directory{} at the start) and those the
\* generated init function built.
Receivers == {cur} \cup {locals[h] : h \in DOMAIN locals}

\* Resource entering the Directory it made into the table.
CallResource_Registers ==
    /\ epc = "initialized"
    /\ calls < MaxCalls
    /\ \E key \in KeyArgs, dir \in DirArgs, caller \in Callers :
          LET r == Resource(key, dir, caller)
          IN  /\ result' = [call |-> "Resource", recv |-> <<>>, name |-> key,
                            value |-> r.value, err |-> r.err]
              /\ cur' = IF r.err.isNil THEN r.value ELSE cur
              /\ trail' = IF ~r.err.isNil THEN trail
                          ELSE IF developmentMode THEN <<PathDir(caller.fn), dir>> ELSE <<>>
              /\ zappedResources' = IF r.err.isNil THEN (key :> NoHash) @@ zappedResources
                                    ELSE zappedResources
    /\ calls' = calls + 1
    /\ UNCHANGED <<embedVars, genVars, developmentMode, locals>>

\* Resource called by the program.

CallResource ==
    /\ epc = "initialized"
    /\ calls < MaxCalls
    /\ \E key \in KeyArgs, dir \in DirArgs, caller \in Callers :
          LET r == Resource(key, dir, caller)
          IN  /\ result' = [call |-> "Resource", recv |-> <<>>, name |-> key,
                            value |-> r.value, err |-> r.err]
              /\ cur' = IF r.err.isNil THEN r.value ELSE cur
              /\ trail' = IF ~r.err.isNil THEN trail
                          ELSE IF developmentMode THEN <<PathDir(caller.fn), dir>> ELSE <<>>
    /\ calls' = calls + 1
    /\ UNCHANGED <<embedVars, genVars, developmentMode, zappedResources, locals>>

CallDirectory ==
    /\ epc = "initialized"
    /\ calls < MaxCalls
    /\ \E dir \in Receivers, name \in NameArgs :
          LET r == Directory(dir, name)
          IN  /\ result' = [call |-> "Directory", recv |-> dir, name |-> name,
                            value |-> r.value, err |-> r.err]
              /\ cur' = IF r.err.isNil THEN r.value ELSE cur
              /\ trail' = IF ~r.err.isNil THEN trail
                          ELSE IF developmentMode /\ dir = cur /\ trail # <<>>
                          THEN Append(trail, name) ELSE <<>>
    /\ calls' = calls + 1
    /\ UNCHANGED <<embedVars, genVars, developmentMode, zappedResources, locals>>

CallFile ==
    /\ epc = "initialized"
    /\ calls < MaxCalls
    /\ \E dir \in Receivers, name \in NameArgs :
          LET r == File(dir, name)
          IN  result' = [call |-> "File", recv |-> dir, name |-> name,
                         value |-> r.value, err |-> r.err]
    /\ calls' = calls + 1
    /\ UNCHANGED <<embedVars, genVars, developmentMode, zappedResources, locals, cur, trail>>

\* Directory.Files: the keys of dir.files appended in the order of the range
\* over the map, which is any order.
DirectoryFiles(dir) == Perms(DOMAIN dir.files)

\* Directory.Directories: the keys of dir.directories, in the order of the
\* range over the map.
DirectoryDirectories(dir) == Perms(DOMAIN dir.directories)

\* File.Bytes
Bytes(f) == f.contents

\* File.String: string(file.contents)
String(f) == [str |-> f.contents]

\* The File values the program holds: File{} and the one its latest call of
\* Directory.File returned.
HeldFiles == {ZeroFile} \cup (IF result.call = "File" /\ result.err.isNil THEN {result.value} ELSE {})

CallFiles ==
    /\ epc = "initialized"
    /\ calls < MaxCalls
    /\ \E dir \in Receivers : \E names \in DirectoryFiles(dir) :
          result' = [call |-> "Files", recv |-> dir, name |-> <<>>,
                     value |-> names, err |-> NilError]
    /\ calls' = calls + 1
    /\ UNCHANGED <<embedVars, genVars, developmentMode, zappedResources, locals, cur, trail>>

CallDirectories ==
    /\ epc = "initialized"
    /\ calls < MaxCalls
    /\ \E dir \in Receivers : \E names \in DirectoryDirectories(dir) :
          result' = [call |-> "Directories", recv |-> dir, name |-> <<>>,
                     value |-> names, err |-> NilError]
    /\ calls' = calls + 1
    /\ UNCHANGED <<embedVars, genVars, developmentMode, zappedResources, locals, cur, trail>>

CallBytes ==
    /\ epc = "initialized"
    /\ calls < MaxCalls
    /\ \E f \in HeldFiles :
          result' = [call |-> "Bytes", recv |-> f, name |-> <<>>,
                     value |-> Bytes(f), err |-> NilError]
    /\ calls' = calls + 1
    /\ UNCHANGED <<embedVars, genVars, developmentMode, zappedResources, locals, cur, trail>>

CallString ==
    /\ epc = "initialized"
    /\ calls < MaxCalls
    /\ \E f \in HeldFiles :
          result' = [call |-> "String", recv |-> f, name |-> <<>>,
                     value |-> String(f), err |-> NilError]
    /\ calls' = calls + 1
    /\ UNCHANGED <<embedVars, genVars, developmentMode, zappedResources, locals, cur, trail>>

\* Another program rewrites a file, or changes its permissions, while the
\* program that uses the library runs; the files are those the calls reach.
RuntimeEditTargets == {Append(DirA, "g"), Append(DirB, "h")}

RuntimeWriteFile ==
    /\ epc = "initialized"
    /\ edits < MaxEdits
    /\ \E p \in RuntimeEditTargets : disk' = [disk EXCEPT !.body[p] = 3 - @]
    /\ edits' = edits + 1
    /\ UNCHANGED <<roots, ri, dirs, embErrors, readDirs, readFiles, epc, genVars, rtVars>>

RuntimeChmod ==
    /\ epc = "initialized"
    /\ edits < MaxEdits
    /\ \E p \in RuntimeEditTargets : disk' = [disk EXCEPT !.fileOk[p] = ~@]
    /\ edits' = edits + 1
    /\ UNCHANGED <<roots, ri, dirs, embErrors, readDirs, readFiles, epc, genVars, rtVars>>

\* The mapping EmbedDirectories returns for one root when every read succeeds.
CollectedFrom(root) ==
    LET r == dfn(root, DiskWithout({}),
                 [dirs |-> <<>>, rd |-> [p \in AllDirs |-> 0], rf |-> [p \in AllFiles |-> 0]])
    IN  (root :> r.dir) @@ r.dirs

\* The states of package zapped in which a program may start: the package as
\* it is without a generated file, or as the init generated from a collected
\* mapping leaves it.
PackageDefaults == [developmentMode |-> TRUE, locals |-> <<>>]
InitOutcomes ==
    {PackageDefaults}
    \cup UNION {{ExecInit(GenerateCode(ds, dm, order).formatted, PackageDefaults) :
                    dm \in BOOLEAN, order \in sortedDirs(ds)} :
                ds \in {CollectedFrom(root) : root \in RootChoices}}

RuntimeInit ==
    /\ disk = DiskWithout({})
    /\ roots = <<>>
    /\ ri = 1
    /\ dirs = <<>>
    /\ embErrors = <<>>
    /\ readDirs = <<>>
    /\ readFiles = <<>>
    /\ edits = 0
    /\ epc = "initialized"
    /\ \E o \in InitOutcomes :
          /\ developmentMode = o.developmentMode
          /\ locals = o.locals
    /\ zappedResources = <<>>
    /\ cur = ZeroDirectory
    /\ result = NoResult
    /\ calls = 0
    /\ trail = <<>>

RuntimeNext ==
    \/ CallResource /\ UNCHANGED <<mainVars, scanVars, pathVars>>
    \/ CallDirectory /\ UNCHANGED <<mainVars, scanVars, pathVars>>
    \/ CallFile /\ UNCHANGED <<mainVars, scanVars, pathVars>>
    \/ CallFiles /\ UNCHANGED <<mainVars, scanVars, pathVars>>
    \/ CallDirectories /\ UNCHANGED <<mainVars, scanVars, pathVars>>
    \/ CallBytes /\ UNCHANGED <<mainVars, scanVars, pathVars>>
    \/ CallString /\ UNCHANGED <<mainVars, scanVars, pathVars>>
    \/ RuntimeWriteFile /\ UNCHANGED <<mainVars, scanVars, pathVars>>
    \/ RuntimeChmod /\ UNCHANGED <<mainVars, scanVars, pathVars>>

InitRuntime == ScanIdle /\ PathIdle /\ GenIdle /\ RuntimeInit /\ MainIdle

SpecRuntime == InitRuntime /\ [][RuntimeNext]_vars

EmbedNext ==
    \/ EmbedRoot /\ UNCHANGED <<mainVars, scanVars, pathVars, genVars, rtVars>>
    \/ EmbedReturn /\ UNCHANGED <<mainVars, scanVars, pathVars, genVars, rtVars>>
    \/ WriteFile /\ UNCHANGED <<mainVars, scanVars, pathVars, genVars, rtVars>>
    \/ Chmod /\ UNCHANGED <<mainVars, scanVars, pathVars, genVars, rtVars>>
    \/ CallGenerateCode /\ UNCHANGED <<mainVars, scanVars, pathVars>>
    \/ RunInit /\ UNCHANGED <<mainVars, scanVars, pathVars>>

InitEmbed == ScanIdle /\ PathIdle /\ EmbedInit /\ GenIdle /\ RuntimeIdle /\ MainIdle

SpecEmbed == InitEmbed /\ [][EmbedNext]_vars

----------------------------------------------------------------------------
(* GetResourcesInPackage and main. The packages of the project are the     *)
(* directories /r and /r/a of the disk; the names of the directories their *)
(* resources point to are one character long.                              *)

\* A Go file of a package: [broken, imports, stmts], broken when the file
\* has a syntax error and parser.ParseFile fails.
Source(imports, stmts) == [broken |-> FALSE, imports |-> imports, stmts |-> stmts]
BrokenSource == [broken |-> TRUE, imports |-> <<>>, stmts |-> <<>>]
GoFile(name, src) == [name |-> name, src |-> src]

ImportZapped == <<[path |-> "zapped", name |-> ""]>>
ResourceCall(key, path) == Call("lib", "Resource", <<StrLit(key), StrLit(path)>>)

\* A path written as characters, as the scanner returns it, split at the
\* separators into the segments filepath.Join works on.
RECURSIVE SplitPath(_)
SplitPath(chars) ==
    IF chars = <<>> THEN <<"">>
    ELSE IF Head(chars) = "/" THEN <<"">> \o SplitPath(Tail(chars))
    ELSE IF Len(chars) = 1 THEN <<Head(chars)>>
    ELSE <<Head(chars)>> \o SplitPath(Tail(Tail(chars)))

\* GetResourcesInFile as a whole: the returned pair [resources, err].
ResourcesInFile(src, fpath) ==
    IF src.broken
    THEN [resources |-> <<>>, err |-> IOError("ParseFile", fpath)]
    ELSE IF NotUsable(getZappedImportName(src))
    THEN [resources |-> <<>>, err |-> NilError]
    ELSE parse(Flatten(src), getZappedImportName(src))

RECURSIVE pkgLoop_KeepsPartial(_, _, _)
\* The loop of GetResourcesInPackage keeping the resources of a file that
\* came with an error.
pkgLoop_KeepsPartial(dir, files, acc) ==
    IF files = <<>> THEN acc
    ELSE IF Head(files).name = "zap.embed.go"
    THEN pkgLoop_KeepsPartial(dir, Tail(files), acc)
    ELSE LET r == ResourcesInFile(Head(files).src, FilepathJoin(<<dir, <<Head(files).name>>>>))
             rel == [i \in DOMAIN r.resources |->
                        [Key |-> r.resources[i].Key, Path |-> SplitPath(r.resources[i].Path)]]
         IN  pkgLoop_KeepsPartial(dir, Tail(files),
                 [resources |-> acc.resources \o CorrectlyPathResources(dir, rel),
                  errs |-> IF r.err.isNil THEN acc.errs ELSE Append(acc.errs, r.err)])

RECURSIVE pkgLoop(_, _, _)
\* The loop of GetResourcesInPackage over pkg.GoFiles; acc is [resources, errs].
pkgLoop(dir, files, acc) ==
    IF files = <<>> THEN acc
    ELSE IF Head(files).name = "zap.embed.go"
    THEN pkgLoop(dir, Tail(files), acc)
    ELSE LET r == ResourcesInFile(Head(files).src, FilepathJoin(<<dir, <<Head(files).name>>>>))
             rel == [i \in DOMAIN r.resources |->
                        [Key |-> r.resources[i].Key, Path |-> SplitPath(r.resources[i].Path)]]
         IN  IF ~r.err.isNil
             THEN pkgLoop(dir, Tail(files), [acc EXCEPT !.errs = Append(@, r.err)])
             ELSE pkgLoop(dir, Tail(files),
                      [acc EXCEPT !.resources =
                                     @ \o CorrectlyPathResources(dir, rel)])

\* GetResourcesInPackage: pkg is [Name, Dir, GoFiles].
GetResourcesInPackage(pkg) ==
    LET acc == pkgLoop(pkg.Dir, pkg.GoFiles, [resources |-> <<>>, errs |-> <<>>])
    IN  [resources |-> acc.resources, err |-> SafeReturn(acc.errs)]

\* The Go files of the project.
SrcOneCall == Source(ImportZapped, <<ResourceCall(KeyA, <<"a">>)>>)
SrcTwoCalls ==
    Source(<<ImportFmt, [path |-> "zap/zapped", name |-> "z"]>>,
           <<ResourceCall(KeyB, <<"c">>), ResourceCall(KeyA, <<"a", "/", "b">>)>>)
SrcMixed ==
    Source(ImportZapped,
           <<ResourceCall(KeyA, <<"a">>), Call("lib", "Resource", <<IdentArg, StrLit(<<"c">>)>>)>>)
SrcNoImport == Source(<<ImportFmt>>, <<Call("fmt", "Println", <<StrLit(KeyA)>>)>>)
SrcSub == Source(ImportZapped, <<ResourceCall(KeyB, <<"b">>)>>)

Package(name, dir, files) == [Name |-> name, Dir |-> dir, GoFiles |-> files]
RootPackages ==
    { Package("main", DirR,
              <<GoFile("main.go", SrcOneCall),
                GoFile("zap.embed.go", Source(ImportZapped, <<ResourceCall(<<"Z">>, <<"c">>)>>))>>),
      Package("main", DirR, <<GoFile("main.go", SrcTwoCalls), GoFile("util.go", SrcNoImport)>>),
      Package("main", DirR, <<GoFile("main.go", SrcMixed), GoFile("util.go", SrcTwoCalls)>>),
      Package("main", DirR, <<GoFile("main.go", SrcOneCall), GoFile("util.go", BrokenSource),
                              GoFile("zap.embed.go", BrokenSource)>>) }
SubPackages ==
    { Package("a", DirA, <<GoFile("a.go", SrcSub)>>),
      Package("a", DirA,
              <<GoFile("a.go", Source(ImportZapped, <<Call("lib", "Open", <<StrLit(KeyA)>>)>>)),
                GoFile("b.go", SrcSub)>>),
      Package("a", DirA, <<GoFile("a.go", SrcNoImport)>>) }

\* What GetPackagesInProject may return: the packages in the order of
\* filepath.Walk, a directory before its subdirectories.
PackageLists ==
    {ps \in SeqsUpTo(RootPackages \cup SubPackages, MaxPkgs) :
        \A i, j \in DOMAIN ps : i < j => (ps[i] \in RootPackages /\ ps[j] \in SubPackages)}

\* The file an earlier run left in zapped/zap.embed.go.
OldFile == [exists |-> TRUE, content |-> <<Stmt("developmentMode", NoHash, "", TRUE)>>]

\* A line main prints before it exits with status 1.
Printed(phase, name, err) == [phase |-> phase, pkg |-> name, err |-> err]

\* main after GetPackagesInProject returned.
MainInit ==
    /\ packages \in PackageLists
    /\ mi = 1
    /\ mres = <<>>
    /\ pret = NoRet
    /\ mpc = "packages"
    /\ exitCode = -1
    /\ stdout = <<>>
    /\ embedFile \in {NoFile, OldFile}
    /\ disk \in InitialDisks
    /\ roots = <<>>
    /\ ri = 1
    /\ dirs = <<>>
    /\ embErrors = <<>>
    /\ readDirs = [p \in AllDirs |-> 0]
    /\ readFiles = [p \in AllFiles |-> 0]
    /\ edits = 0
    /\ epc = "idle"
    /\ devMode \in BOOLEAN
    /\ code = NoCode
    /\ gens = 0

\* A turn of main's loop over the packages leaving the loop, not the
\* program, on an error.
MainPackage_SkipsFailedPackage ==
    /\ mpc = "packages"
    /\ mi <= Len(packages)
    /\ pret' = GetResourcesInPackage(packages[mi])
    /\ IF ~pret'.err.isNil
       THEN /\ stdout' = Append(stdout, Printed("resources", packages[mi].Name, pret'.err))
            /\ mi' = Len(packages) + 1
            /\ UNCHANGED <<mres, mpc, exitCode>>
       ELSE /\ mres' = mres \o pret'.resources
            /\ mi' = mi + 1
            /\ UNCHANGED <<mpc, exitCode, stdout>>
    /\ UNCHANGED <<packages, embedFile, embedVars, genVars>>

\* One turn of main's loop over the packages.
MainPackage ==
    /\ mpc = "packages"
    /\ mi <= Len(packages)
    /\ pret' = GetResourcesInPackage(packages[mi])
    /\ IF ~pret'.err.isNil
       THEN /\ stdout' = Append(stdout, Printed("resources", packages[mi].Name, pret'.err))
            /\ exitCode' = 1
            /\ mpc' = "exited"
            /\ UNCHANGED <<mres, mi>>
       ELSE /\ mres' = mres \o pret'.resources
            /\ mi' = mi + 1
            /\ UNCHANGED <<mpc, exitCode, stdout>>
    /\ UNCHANGED <<packages, embedFile, embedVars, genVars>>

\* main calls EmbedDirectories(resources).
MainEmbed ==
    /\ mpc = "packages"
    /\ mi > Len(packages)
    /\ mpc' = "embed"
    /\ roots' = mres
    /\ ri' = 1
    /\ dirs' = <<>>
    /\ embErrors' = <<>>
    /\ epc' = "loop"
    /\ UNCHANGED <<disk, readDirs, readFiles, edits, genVars>>
    /\ UNCHANGED <<packages, mi, mres, pret, exitCode, stdout, embedFile>>

\* EmbedDirectories returned: main exits on an error, else it goes on.
MainEmbedded ==
    /\ mpc = "embed"
    /\ epc = "returned"
    /\ IF embErrors # <<>>
       THEN /\ stdout' = Append(stdout, Printed("embedding", "", SafeReturn(embErrors)))
            /\ exitCode' = 1
            /\ mpc' = "exited"
       ELSE /\ mpc' = "generate"
            /\ UNCHANGED <<exitCode, stdout>>
    /\ UNCHANGED <<packages, mi, mres, pret, embedFile, embedVars, genVars>>

\* main calls GenerateCode(embeddedDirectories, *devMode) and exits on an
\* error.
MainGenerate ==
    /\ mpc = "generate"
    /\ \E order \in sortedDirs(dirs) : code' = GenerateCode(dirs, devMode, order)
    /\ gens' = gens + 1
    /\ IF ~code'.err.isNil
       THEN /\ stdout' = Append(stdout, Printed("generating", "", code'.err))
            /\ exitCode' = 1
            /\ mpc' = "exited"
       ELSE /\ mpc' = "write"
            /\ UNCHANGED <<exitCode, stdout>>
    /\ UNCHANGED <<packages, mi, mres, pret, embedFile, embedVars, devMode>>

\* ioutil.WriteFile(embedPath, code, os.ModePerm) and the end of main: the
\* write succeeds, or it fails and leaves the file as it was or cut short.
MainWrite ==
    /\ mpc = "write"
    /\ \/ /\ embedFile' = [exists |-> TRUE, content |-> code.formatted]
          /\ exitCode' = 0
          /\ UNCHANGED stdout
       \/ /\ embedFile' \in {embedFile, [exists |-> TRUE, content |-> <<>>]}
          /\ stdout' = Append(stdout, Printed("writing", "", IOError("WriteFile", <<"zap.embed.go">>)))
          /\ exitCode' = 1
    /\ mpc' = "exited"
    /\ UNCHANGED <<packages, mi, mres, pret, embedVars, genVars>>

MainNext ==
    \/ MainPackage /\ UNCHANGED <<scanVars, pathVars, rtVars>>
    \/ MainEmbed /\ UNCHANGED <<scanVars, pathVars, rtVars>>
    \/ EmbedRoot /\ UNCHANGED <<mainVars, scanVars, pathVars, genVars, rtVars>>
    \/ EmbedReturn /\ UNCHANGED <<mainVars, scanVars, pathVars, genVars, rtVars>>
    \/ MainEmbedded /\ UNCHANGED <<scanVars, pathVars, rtVars>>
    \/ MainGenerate /\ UNCHANGED <<scanVars, pathVars, rtVars>>
    \/ MainWrite /\ UNCHANGED <<scanVars, pathVars, rtVars>>

InitMain == ScanIdle /\ PathIdle /\ RuntimeIdle /\ MainInit

SpecMain == InitMain /\ [][MainNext]_vars

\* C10: when two resources name the same root, the returned mapping has an
\* entry for it and its directory was read from the disk once only. Stated
\* for the runs in which the root can be listed and nothing on the disk
\* changes.
C10_SameRootReadOnce ==
    (epc = "returned" /\ edits = 0)
    => \A i, j \in DOMAIN roots :
          (i < j /\ roots[i].Path = roots[j].Path /\ disk.dirOk[roots[i].Path])
          => /\ roots[i].Path \in DOMAIN dirs
             /\ readDirs[roots[i].Path] = 1

\* A disk on which every directory can be listed and every file read.
AllReadable(d) ==
    /\ \A p \in AllDirs : d.dirOk[p]
    /\ \A p \in AllFiles : d.fileOk[p]

\* C11: a directory that is present in the mapping is never collected again:
\* no step of EmbedDirectories reads its entries from the disk again or
\* replaces its mapping entry, also when a later root is an ancestor of it.
\* Stated for the runs in which nothing fails and nothing on the disk changes.
C11_PresentDirectoryReused ==
    [][(edits' = 0 /\ AllReadable(disk))
       => \A D \in DOMAIN dirs : /\ readDirs'[D] = readDirs[D]
                                 /\ D \in DOMAIN dirs'
                                 /\ dirs'[D] = dirs[D]]_vars

\* The entries dfn skips.
IsSkipped(name) == name \in {".git", "zap.embed.go"}

RECURSIVE SelectSeq2(_, _)
\* The subsequence of the entries es that satisfy keep (an entry predicate
\* given as the set of entries to keep).
SelectSeq2(es, keep) ==
    IF es = <<>> THEN <<>>
    ELSE IF Head(es) \in keep THEN <<Head(es)>> \o SelectSeq2(Tail(es), keep)
    ELSE SelectSeq2(Tail(es), keep)

\* What the disk d holds in directory D, skipped entries excepted: the map
\* from the names of its regular files to their contents, and the absolute
\* paths of its immediate subdirectories in the order of the listing.
FilesOnDisk(D, d) ==
    [n \in {e.name : e \in {x \in Range(Entries(D)) : ~x.isDir /\ ~IsSkipped(x.name)}}
        |-> d.body[Append(D, n)]]

SubDirsOnDisk(D) ==
    LET kept == SelectSeq2(Entries(D), {x \in Range(Entries(D)) : x.isDir /\ ~IsSkipped(x.name)})
    IN  [k \in DOMAIN kept |-> Append(D, kept[k].name)]

IsPrefix(p, q) == Len(p) <= Len(q) /\ SubSeq(q, 1, Len(p)) = p

\* The directories at and below root that no skipped entry leads to.
Below(root) ==
    {D \in AllDirs : /\ IsPrefix(root, D)
                     /\ \A k \in (Len(root) + 1)..Len(D) : ~IsSkipped(D[k])}

\* Everything at and below root can be read on disk d.
RootReadable(root, d) ==
    \A D \in Below(root) :
        /\ d.dirOk[D]
        /\ \A n \in DOMAIN FilesOnDisk(D, d) : d.fileOk[Append(D, n)]

EntryMatches(D, dir, d) ==
    /\ dir.Files = FilesOnDisk(D, d)
    /\ dir.SubDirs = SubDirsOnDisk(D)

\* A turn of the root loop that collects a fully readable root leaves an
\* entry for it and for every directory below it, holding what the disk holds.
C12_Step ==
    (/\ ri' = ri + 1
     /\ roots[ri].Path \notin DOMAIN dirs
     /\ RootReadable(roots[ri].Path, disk))
    => \A D \in Below(roots[ri].Path) :
          /\ D \in DOMAIN dirs'
          /\ EntryMatches(D, dirs'[D], disk)

\* When nothing on the disk changed during the run, the returned mapping has
\* these entries for every fully readable root, and no key that is not a
\* directory at or below a root.
C12_Returned ==
    (epc = "returned" /\ edits = 0)
    => /\ \A i \in DOMAIN roots :
             RootReadable(roots[i].Path, disk)
             => \A D \in Below(roots[i].Path) :
                   /\ D \in DOMAIN dirs
                   /\ EntryMatches(D, dirs[D], disk)
       /\ DOMAIN dirs \subseteq UNION {Below(roots[i].Path) : i \in DOMAIN roots}

\* C12: for a fully readable root the mapping has one entry for the root and
\* one for every directory below it, keyed by absolute path; each entry's
\* Files maps every regular file name of the directory to its contents and
\* its SubDirs lists the absolute paths of its immediate subdirectories.
C12_ReadableRootFullyCollected == []C12_Returned /\ [][C12_Step]_vars

C12_Witness ==
    /\ epc = "returned"
    /\ edits = 0
    /\ Len(roots) = 1
    /\ roots[1].Path = DirR
    /\ AllReadable(disk)
    /\ DOMAIN dirs = {DirR, DirA, DirB, DirC}
    /\ dirs[DirR].SubDirs = <<DirA, DirC>>
    /\ dirs[DirA].Files = [g |-> 1]

\* The paths on the disk that a skipped entry is or leads to.
SkippedPaths ==
    {p \in AllDirs \cup AllFiles : \E k \in DOMAIN p : IsSkipped(p[k])}

\* C13: entries named .git or zap.embed.go are skipped at every depth: none
\* is a file name of a Files map, a path of a SubDirs list or a key of the
\* mapping, and neither they nor anything below them is ever read.
C13_SkippedEntriesNeverCollected ==
    /\ \A D \in DOMAIN dirs :
          /\ D \notin SkippedPaths
          /\ \A n \in DOMAIN dirs[D].Files : ~IsSkipped(n)
          /\ \A k \in DOMAIN dirs[D].SubDirs : dirs[D].SubDirs[k] \notin SkippedPaths
    /\ \A p \in SkippedPaths \cap AllDirs : readDirs[p] = 0
    /\ \A p \in SkippedPaths \cap AllFiles : readFiles[p] = 0

C13_Witness ==
    /\ epc = "returned"
    /\ Len(roots) = 2
    /\ roots[1].Path = DirR
    /\ DOMAIN dirs = {DirR, DirA, DirB, DirC}
    /\ DOMAIN dirs[DirR].Files = {"f"}
    /\ DOMAIN dirs[DirB].Files = {"h"}
    /\ readDirs[DirR] = 1

\* The directories dfn(root) reaches on disk d: those at and below root whose
\* ancestors up to root can all be listed.
Reached(root, d) ==
    {D \in Below(root) : \A k \in Len(root)..(Len(D) - 1) : d.dirOk[SubSeq(D, 1, k)]}

\* The regular files dfn(root) reaches: the files, skipped ones excepted, of
\* the reached directories that can be listed.
ReachedFiles(root, d) ==
    UNION {{Append(D, n) : n \in DOMAIN FilesOnDisk(D, d)} :
              D \in {E \in Reached(root, d) : d.dirOk[E]}}

\* The reached directories and files whose read fails.
FailingPaths(root, d) ==
    {D \in Reached(root, d) : ~d.dirOk[D]} \cup {f \in ReachedFiles(root, d) : ~d.fileOk[f]}

\* The paths of the I/O errors an error value holds, aggregates unfolded.
RECURSIVE Leaves(_)
Leaves(e) ==
    IF "errs" \in DOMAIN e
    THEN UNION {Leaves(e.errs[k]) : k \in DOMAIN e.errs}
    ELSE {e.path}

\* A turn of the root loop that runs dfn reads every directory and file it
\* can reach, whatever fails on the way, stores every fully readable
\* directory below the root, and adds to the errors one error holding
\* exactly the failures met (none when nothing failed).
C14_Step ==
    (ri' = ri + 1 /\ roots[ri].Path \notin DOMAIN dirs)
    => LET root == roots[ri].Path
           failing == FailingPaths(root, disk)
       IN  /\ \A D \in Reached(root, disk) : readDirs'[D] = readDirs[D] + 1
           /\ \A f \in ReachedFiles(root, disk) : readFiles'[f] = readFiles[f] + 1
           /\ \A D \in Reached(root, disk) \ {root} :
                 RootReadable(D, disk) => (D \in DOMAIN dirs' /\ EntryMatches(D, dirs'[D], disk))
           /\ IF failing = {}
              THEN embErrors' = embErrors
              ELSE /\ Len(embErrors') = Len(embErrors) + 1
                   /\ SubSeq(embErrors', 1, Len(embErrors)) = embErrors
                   /\ Leaves(embErrors'[Len(embErrors')]) = failing

\* Errors already recorded stay, and at the return every root had its turn:
\* it is in the mapping or its directory was read.
C14_Kept ==
    /\ Len(embErrors') >= Len(embErrors)
    /\ SubSeq(embErrors', 1, Len(embErrors)) = embErrors
    /\ DOMAIN dirs \subseteq DOMAIN dirs'

C14_Returned ==
    epc = "returned"
    => \A i \in DOMAIN roots : roots[i].Path \in DOMAIN dirs \/ readDirs[roots[i].Path] >= 1

C15_GenerateCodeDeterministic ==
    [][(gens >= 1 /\ gens' = gens + 1 /\ devMode' = devMode) => code' = code]_vars

\* The statement of the generated code that declares the variable of path D.
IsDeclarationOf(stmt, D) == stmt.op = "declare" /\ stmt.hash = Hash(D) /\ stmt.lit = D

\* C16: in the code generated from a collected mapping every directory is
\* declared, once, after all of its subdirectories, so that every child
\* reference names an identifier declared earlier in the code.
C16_ChildrenDeclaredBeforeParents ==
    gens >= 1
    => LET stmts == code.formatted
       IN  /\ code.err.isNil
           /\ \A D \in DOMAIN dirs :
                 Cardinality({k \in DOMAIN stmts : IsDeclarationOf(stmts[k], D)}) = 1
           /\ \A D \in DOMAIN dirs : \A i \in DOMAIN dirs[D].SubDirs :
                 \A k \in DOMAIN stmts :
                    IsDeclarationOf(stmts[k], D)
                    => \E j \in 1..(k - 1) : IsDeclarationOf(stmts[j], dirs[D].SubDirs[i])
           /\ \A k \in DOMAIN stmts :
                 stmts[k].op = "directories"
                 => \E j \in 1..(k - 1) : stmts[j].op = "declare" /\ stmts[j].hash = stmts[k].arg

C16_Witness ==
    /\ gens >= 1
    /\ DOMAIN dirs = {DirR, DirA, DirB, DirC}
    /\ Len(code.formatted) = 12
    /\ IsDeclarationOf(code.formatted[2], DirB)
    /\ IsDeclarationOf(code.formatted[4], DirC)
    /\ code.formatted[11] = Stmt("directories", Hash(DirR), <<"c">>, Hash(DirC))

\* The last segment of a path.
BaseName(p) == p[Len(p)]

\* C17: the init generated from a collected mapping builds, for each
\* collected directory, a Directory whose files have the names and contents
\* of the collected ones and whose directories map has the relative names of
\* the subdirectories, each pointing to the Directory of that subdirectory;
\* in embedded mode File and Directory read them back.
C17_RoundTrip ==
    epc = "initialized"
    => \A D \in DOMAIN dirs :
          /\ Hash(D) \in DOMAIN locals
          /\ DOMAIN locals[Hash(D)].files = {<<n>> : n \in DOMAIN dirs[D].Files}
          /\ \A n \in DOMAIN dirs[D].Files :
                /\ locals[Hash(D)].files[<<n>>].contents = dirs[D].Files[n]
                /\ ~developmentMode
                   => File(locals[Hash(D)], <<n>>)
                      = [value |-> [contents |-> dirs[D].Files[n]], err |-> NilError]
          /\ DOMAIN locals[Hash(D)].directories = {<<BaseName(S)>> : S \in Range(dirs[D].SubDirs)}
          /\ \A S \in Range(dirs[D].SubDirs) :
                /\ locals[Hash(D)].directories[<<BaseName(S)>>] = Hash(S)
                /\ ~developmentMode
                   => Directory(locals[Hash(D)], <<BaseName(S)>>)
                      = [value |-> locals[Hash(S)], err |-> NilError]

\* C18: after a full run with devMode = false and the execution of the
\* generated init, Resource(key, _) succeeds for the key of every resource
\* and returns the Directory built from the tree collected at its path.
C18_ResourceTablePopulated ==
    (epc = "initialized" /\ ~devMode)
    => \A i \in DOMAIN roots : \A dir \in DirArgs, caller \in Callers :
          /\ Resource(roots[i].Key, dir, caller).err.isNil
          /\ Resource(roots[i].Key, dir, caller).value = locals[Hash(roots[i].Path)]

\* What a look-up of key k in map m returns in embedded mode: the mapped
\* value and a nil error on a hit, no value and a not-found error on a miss.
LookedUp(res, m, k, hit, none) ==
    IF k \in DOMAIN m
    THEN res.err.isNil /\ res.value = hit
    ELSE ~res.err.isNil /\ res.err.path = k /\ res.value = none

C19_Step ==
    (~developmentMode /\ calls' = calls + 1)
    => LET res == result'
       IN  CASE res.call = "File" ->
                  LookedUp(res, res.recv.files, res.name,
                           IF res.name \in DOMAIN res.recv.files
                           THEN res.recv.files[res.name] ELSE ZeroFile, ZeroFile)
             [] res.call = "Directory" ->
                  LookedUp(res, res.recv.directories, res.name,
                           IF res.name \in DOMAIN res.recv.directories
                           THEN locals[res.recv.directories[res.name]] ELSE <<>>, <<>>)
             [] res.call = "Resource" ->
                  LookedUp(res, zappedResources, res.name,
                           IF res.name \in DOMAIN zappedResources
                           THEN locals[zappedResources[res.name]] ELSE <<>>, <<>>)
             [] OTHER -> TRUE

C19_SecondArgumentIgnored ==
    ~developmentMode
    => \A key \in KeyArgs, d1, d2 \in DirArgs, c1, c2 \in Callers :
          Resource(key, d1, c1) = Resource(key, d2, c2)

\* C19: in embedded mode Resource, Directory.File and Directory.Directory
\* return the mapped value with a nil error exactly when the key or name is
\* in the resource table, the files map or the directories map, and a
\* not-found error with no value otherwise; the second argument of Resource
\* has no influence.
C19_EmbeddedLookups == []C19_SecondArgumentIgnored /\ [][C19_Step]_vars

C19_Witness ==
    /\ ~developmentMode
    /\ calls = 3
    /\ cur # ZeroDirectory
    /\ result.call = "File"
    /\ result.recv = cur
    /\ result.name = <<"g">>
    /\ result.err.isNil
    /\ result.value = [contents |-> 1]

C20_Step ==
    (developmentMode /\ trail # <<>> /\ calls' = calls + 1
       /\ result'.call = "File" /\ result'.recv = cur)
    => LET r == ReadFile(disk, FilepathJoin(Append(trail, result'.name)))
       IN  IF r.err.isNil
           THEN result'.err.isNil /\ result'.value = [contents |-> r.bytes]
           ELSE result'.err = r.err /\ result'.value = ZeroFile

C20_Chain ==
    (developmentMode /\ trail # <<>>)
    => /\ cur.devPath = FilepathJoin(trail)
       /\ cur.files = <<>>
       /\ cur.directories = <<>>

\* C20: in development mode, for the Directory obtained by Resource(key, rel)
\* from a caller in directory C and a chain of Directory(n1)..Directory(nk)
\* calls, all of which succeed, File(name) returns the contents that
\* join(C, rel, n1, .., nk, name) has on disk at the moment of the call, or
\* the I/O error of the read.
C20_DevModeReadsLive == []C20_Chain /\ [][C20_Step]_vars

C20_Witness ==
    /\ developmentMode
    /\ edits = 1
    /\ Len(trail) = 3
    /\ result.call = "File"
    /\ result.recv = cur
    /\ result.err.isNil
    /\ result.value = [contents |-> 2]

\* A step of the walk: the callback is called with the node nodes[idx].
Visits == pc = "walk" /\ idx <= Len(nodes) /\ idx' = idx + 1

\* C25: in state ExpectingResourceCall an identifier other than Resource
\* adds exactly one UnknownCall diagnostic at the identifier's position and
\* returns the scanner to NilState; the identifier Resource moves the scanner
\* to ExpectingKey with no diagnostic. The resources are left as they are.
C25_CallNameChecked ==
    [][(Visits /\ state = ExpectingResourceCall /\ nodes[idx].kind = "Ident")
       => /\ resources' = resources
          /\ IF nodes[idx].name # "Resource"
             THEN /\ errors' = Append(errors, generateParseError(nodes[idx].pos, errorUnknownCall))
                  /\ state' = NilState
             ELSE /\ errors' = errors
                  /\ state' = ExpectingKey]_vars

C25_Witness ==
    /\ pc = "walk"
    /\ idx > 1
    /\ nodes[idx - 1] = Ident("Open", PosOf(1, 1))
    /\ nodes[idx - 2].kind = "Ident"
    /\ nodes[idx - 2].name = imp
    /\ state = NilState
    /\ errors = <<generateParseError(PosOf(1, 1), errorUnknownCall)>>

\* A node that is a string literal.
IsStringLit(node) == node.kind = "BasicLit" /\ node.tok = "STRING"

\* C26: while the scanner is in ExpectingKey or ExpectingPath, a visited node
\* that is not a string literal (an identifier, another literal or any other
\* node, inside the call or after it) adds exactly one BadArgumentType
\* diagnostic at that node's position and returns the scanner to NilState.
C26_NonLiteralDiagnosed ==
    [][(Visits /\ state \in {ExpectingKey, ExpectingPath} /\ ~IsStringLit(nodes[idx]))
       => /\ errors' = Append(errors, generateParseError(nodes[idx].pos, errorBadType))
          /\ state' = NilState
          /\ resources' = resources]_vars

C26_Witness ==
    /\ pc = "walk"
    /\ idx > 2
    /\ nodes[idx - 1] = Other(PosOf(2, 0))
    /\ IsStringLit(nodes[idx - 2])
    /\ Len(resources) = 1
    /\ resources[1].Path = <<>>
    /\ state = NilState
    /\ errors = <<generateParseError(PosOf(2, 0), errorBadType)>>

\* The last element of a non-empty sequence.
LastOf(s) == s[Len(s)]

C29_Expecting ==
    (pc = "walk" /\ state = ExpectingPath)
    => /\ resources # <<>>
       /\ LastOf(resources).Path = <<>>
       /\ idx > 1
       /\ IsStringLit(nodes[idx - 1])
       /\ LastOf(resources).Key = StripQuotes(nodes[idx - 1].value)

C29_Step ==
    (Visits /\ state = ExpectingPath)
    => /\ Len(resources') = Len(resources)
       /\ \A i \in 1..(Len(resources) - 1) : resources'[i] = resources[i]
       /\ LastOf(resources').Key = LastOf(resources).Key

\* C29: in every reachable state of the scanner, state = ExpectingPath
\* implies that the resource list is not empty and that its last element has
\* an empty Path and the Key of the call being scanned; completing a path
\* changes neither the Key nor the Path of an earlier resource.
C29_ExpectingPathHasOpenResource == []C29_Expecting /\ [][C29_Step]_vars

C29_Witness ==
    /\ pc = "walk"
    /\ state = NilState
    /\ Len(resources) = 2
    /\ resources[1] = [Key |-> KeyA, Path |-> PathS]
    /\ resources[2] = [Key |-> KeyB, Path |-> PathQ]
    /\ IsStringLit(nodes[idx - 1])

\* C27: a read failure inside a subdirectory S of a root R is scoped to the
\* subtree of S: after the turn of R, the mapping holds R and every directory
\* of R's tree outside S, with their readable files.
C27_FailureScopedToSubtree ==
    [][(ri' = ri + 1 /\ roots[ri].Path \notin DOMAIN dirs)
       => LET R == roots[ri].Path
              failing == FailingPaths(R, disk)
          IN  \A S \in Reached(R, disk) \ {R} :
                 (failing # {} /\ \A p \in failing : IsPrefix(S, p))
                 => \A D \in Below(R) :
                       ~IsPrefix(S, D)
                       => /\ D \in DOMAIN dirs'
                          /\ dirs'[D].Files = FilesOnDisk(D, disk)]_vars

\* C30: in the mapping EmbedDirectories builds and returns, whatever the
\* roots and whatever reads failed, every path in the SubDirs of a directory
\* of the mapping is a key of the mapping and an immediate child path of
\* that directory.
C30_NoDanglingSubDir ==
    \A D \in DOMAIN dirs : \A k \in DOMAIN dirs[D].SubDirs :
        LET S == dirs[D].SubDirs[k]
        IN  /\ S \in DOMAIN dirs
            /\ Len(S) = Len(D) + 1
            /\ IsPrefix(D, S)

C30_Witness ==
    /\ epc = "returned"
    /\ Len(roots) = 2
    /\ embErrors # <<>>
    /\ DirR \notin DOMAIN dirs
    /\ DirA \in DOMAIN dirs
    /\ dirs[DirA].SubDirs = <<DirB>>
    /\ readDirs[DirA] = 2

\* C21: after initialization no runtime operation (Resource, Directory.File,
\* Directory.Directory, Files, Directories, File.Bytes, File.String) writes
\* developmentMode, the resource table or the maps of a Directory of the
\* embedded graph, in either mode and whether the call succeeds or fails.
C21_RuntimeWritesNothing ==
    [][(epc = "initialized" /\ calls' = calls + 1)
       => /\ developmentMode' = developmentMode
          /\ zappedResources' = zappedResources
          /\ locals' = locals]_vars

C21_Witness ==
    /\ epc = "initialized"
    /\ ~developmentMode
    /\ locals # <<>>
    /\ calls = 3
    /\ cur # ZeroDirectory
    /\ result.call = "Resource"
    /\ ~result.err.isNil

\* The names of a listing are in alphabetical order, each once.
IsSortedListing(names, keys) ==
    /\ Range(names) = keys
    /\ Len(names) = Cardinality(keys)
    /\ \A i, j \in DOMAIN names : i < j => Rank(names[i][1]) < Rank(names[j][1])

\* C22: Directory.Files() and Directory.Directories() return the names of
\* all files and of all subdirectories embedded in the Directory, each
\* exactly once, sorted in alphabetical order.
C22_ListingsSorted ==
    /\ result.call = "Files" => IsSortedListing(result.value, DOMAIN result.recv.files)
    /\ result.call = "Directories"
       => IsSortedListing(result.value, DOMAIN result.recv.directories)

\* A step of main's loop over the packages: GetResourcesInPackage is called
\* with packages[mi] and returns pret'.
ScansPackage == mpc = "packages" /\ mi <= Len(packages)

\* Whether GetResourcesInPackage scans file f, and what the scan returns.
IsScanned(f) == f.name # "zap.embed.go"
ScanOf(pkg, f) == ResourcesInFile(f.src, Append(pkg.Dir, f.name))

\* The resources r with their paths joined to the directory dir.
JoinedTo(dir, r) ==
    [i \in DOMAIN r |-> [Key |-> r[i].Key, Path |-> FilepathJoin(<<dir, SplitPath(r[i].Path)>>)]]

C23_ErrorsExit ==
    /\ ~pret.err.isNil => (mpc = "exited" /\ exitCode = 1)
    /\ (epc = "returned" /\ embErrors # <<>> /\ mpc # "embed") => (mpc = "exited" /\ exitCode = 1)
    /\ ~code.err.isNil => (mpc = "exited" /\ exitCode = 1)
    /\ mpc = "exited" => (exitCode \in {0, 1} /\ (exitCode = 0 <=> stdout = <<>>))
    /\ mpc # "exited" => (exitCode = -1 /\ stdout = <<>>)

C23_WrittenLast ==
    embedFile' # embedFile
    => /\ mpc = "write"
       /\ mpc' = "exited"
       /\ stdout = <<>>
       /\ mi = Len(packages) + 1
       /\ \A i \in DOMAIN packages : GetResourcesInPackage(packages[i]).err.isNil
       /\ epc = "returned"
       /\ embErrors = <<>>
       /\ gens = 1
       /\ code.err.isNil

C24_AllPackagesReported ==
    mpc = "exited"
    => \A i \in DOMAIN packages :
          ~GetResourcesInPackage(packages[i]).err.isNil
          => \E k \in DOMAIN stdout :
                stdout[k] = Printed("resources", packages[i].Name,
                                    GetResourcesInPackage(packages[i]).err)

\* C28: GetResourcesInPackage returns, in file order, the resources of every
\* file other than zap.embed.go whose scan returned no error, with their
\* paths joined to the package directory; a file that fails to parse or
\* yields a diagnostic contributes no resource and its error is in the
\* aggregate, in file order; zap.embed.go is not scanned.
C28_FailingFileDropped ==
    [][ScansPackage
       => LET pkg == packages[mi]
              fs == pkg.GoFiles
          IN  /\ pret'.resources
                   = Concat([k \in DOMAIN fs |->
                               IF IsScanned(fs[k]) /\ ScanOf(pkg, fs[k]).err.isNil
                               THEN JoinedTo(pkg.Dir, ScanOf(pkg, fs[k]).resources)
                               ELSE <<>>])
              /\ pret'.err
                   = SafeReturn(Concat([k \in DOMAIN fs |->
                               IF IsScanned(fs[k]) /\ ~ScanOf(pkg, fs[k]).err.isNil
                               THEN <<ScanOf(pkg, fs[k]).err>>
                               ELSE <<>>]))]_vars

C28_Witness ==
    /\ mpc = "exited"
    /\ Len(packages) = 1
    /\ packages[1].GoFiles = <<GoFile("main.go", SrcMixed), GoFile("util.go", SrcTwoCalls)>>
    /\ pret.resources = <<[Key |-> KeyB, Path |-> DirC], [Key |-> KeyA, Path |-> DirB]>>
    /\ ~pret.err.isNil
    /\ Len(pret.err.errs) = 1
    /\ Len(pret.err.errs[1].errs) = 1

====
